---- MODULE Spec2Model ----
(***************************************************************************)
(* A model of winhtop: the per-process CPU delta computation               *)
(* (modules/processsn.py), the party-mode toggle (modules/input.py), the   *)
(* main loop (task_manager.py) and the audio visualizer's shared           *)
(* magnitude state (modules/audio_vis.py).                                 *)
(*                                                                         *)
(* Times are integers in microseconds.  CPU percentages are exact          *)
(* rationals <<numerator, denominator>> in lowest terms.                   *)
(***************************************************************************)
EXTENDS Integers, Sequences, FiniteSets, TLC

VARIABLES
    \* ---- modules/processsn.py, modules/state.py: CPU delta cache
    proc_cpu_cache,     \* state.proc_cpu_cache: pid -> last raw record
    call_cache,         \* the cache as it was when compute_cpu_deltas was called
    curr_snapshot,      \* the snapshot passed to the last call
    interval_us,        \* interval_seconds of the last call, in microseconds
    cpu_count,          \* cpu_count of the last call
    results,            \* the list the last call returned
    cpu_phase,          \* "snapshot": a snapshot is taken, "called": the call returned
    evicted_pids,       \* history: the pids evicted from the cache so far
    \* ---- modules/state.py, modules/input.py: party mode
    audio_available,    \* AUDIO_AVAILABLE
    app_running,        \* state.app_running
    current_refresh_rate,
    party_mode,
    party_visualizer,   \* <<>> (None), or <<v>> with v the AudioVisualizer [running, stream]
    party_prev_refresh_rate,
    last_cmd,           \* what the last executed command did
    cmd_count,          \* number of commands executed so far
    rate_at_entry,      \* history: current_refresh_rate when party mode was entered
    speed_in_party,     \* history: a speed command ran since party mode was entered
    vis_stops,          \* history: per visualizer whose start() succeeded, in order
                        \* of creation, the number of stop() calls made on it
    \* ---- task_manager.py: main loop
    pc,                 \* where the main thread is: "top", "input" or "done"
    clock,              \* time.time(), in microseconds
    now,                \* "now" of the current iteration
    refresh_interval,   \* refresh_interval of the current iteration, in microseconds
    iter_mode,          \* the branch the current iteration took: party, high or normal
    last_update,
    last_process_update,
    poll_end,
    calls,              \* the calls made by the current iteration, in order
    iterations,         \* number of iterations started
    \* ---- modules/audio_vis.py: one AudioVisualizer and its two threads
    lock,               \* self._lock: "free", or the thread holding it
    ram_magnitude,      \* self._ram_magnitude
    swap_magnitude,
    disk_magnitude,
    cpu_magnitudes,     \* self._cpu_magnitudes: a reference to a list on the heap
    heap,               \* list object -> its items
    writes,             \* history: number of writes to each magnitude so far
    running,            \* self._running
    stream,             \* self._stream
    stream_active,      \* the audio subsystem is delivering buffers
    sample_rate,        \* self.sample_rate
    cb_pc,              \* where the capture thread is in _audio_callback
    cb_mags,            \* the band values the callback computed
    cb_i,               \* the callback's index into cpu_mags
    callbacks,          \* number of callbacks started
    m_pc,               \* where the main thread is in get_magnitudes or stop
    ret,                \* the dict get_magnitudes builds and returns
    main_ops,           \* number of calls made by the main thread
    stops,              \* history: number of stop() calls completed in a row
    \* ---- modules/audio_vis.py: one call of start()
    devices,            \* what sd.query_devices() returned
    device_id,          \* the device chosen, counted from 0, or none
    st_pc,              \* where start() is
    sample_rates_to_try,
    configs_to_try,
    cfg_i,              \* the position of the loop in configs_to_try
    dropped,            \* streams created, never closed and referenced no more
    attempts,           \* history: the attempts in order, each with whether it succeeded
    start_ret,          \* what start() returned
    \* ---- modules/processes.py and processsn.py: get_processes cycles
    gp_pc,              \* where get_processes is
    buf_size,           \* the buffer size of get_native_process_snapshot
    kernel_status,      \* the 32 bits the last kernel query returned
    too_small,          \* history: buffer-too-small reports in this call
    processes,          \* state.processes
    ticks,              \* number of get_processes calls
    gp_failed,          \* history: the last cycle was given up
    \* ---- modules/audio_vis.py: _smooth applied again and again
    sm_pc,              \* "pick": no values yet, "smooth": smoothing
    sm_val,             \* the magnitude, a double
    sm_target,          \* the band value it is smoothed toward
    sm_prev,            \* the magnitude before the last _smooth
    sm_steps,           \* number of _smooth calls so far
    \* ---- modules/input.py: handle_input and the console input buffer
    kbd,                \* the keys msvcrt has not handed out yet, oldest first
    pending_confirmation, \* state.pending_confirmation is not None
    hi_pc,              \* "reading": inside the loop of handle_input, else "idle"
    \* ---- modules/processsn.py: the walk over the kernel's buffer
    wk_pc,              \* "query", "walk" or "done"
    wk_buf,             \* buf: offset -> the entry that starts there
    wk_chain,           \* history: the entries the kernel wrote, in order
    wk_offset,          \* offset
    wk_results,         \* results
    \* ---- modules/processes.py: the interval get_processes measures
    wall,               \* time.time(), in microseconds
    prev_proc_time,     \* state.prev_proc_time, <<>> while the attribute is not set
    cache_since,        \* when state.proc_cpu_cache was last written, <<>> while it is empty
    gp_now,             \* get_processes: now
    gp_interval,        \* get_processes: interval
    last_call,          \* the last call of compute_cpu_deltas: interval, cache age
    cycles,             \* calls of get_processes so far
    tm_pc,              \* where get_processes is
    \* ---- modules/audio_vis.py: start() statement by statement
    stream_rate,        \* the samplerate _stream was opened with, <<>> without a stream
    cb_rate,            \* the last callback: the rate it used and the rate of its buffer
    rate_cbs,           \* callbacks so far
    \* ---- modules/input.py: kill, suspend, resume and the confirmation
    kbq,                \* the console's queue: what msvcrt.getwch() will return, in order
    input_buffer,       \* state.input_buffer
    pending_action,     \* state.pending_confirmation: <<>> for None, else <<(action, targets)>>
    acts,               \* history: the terminate/suspend/resume calls that succeeded
    tally,              \* the last loop over targets: its path, action, targets, counts
    presses             \* keys pressed so far

cpuVars  == <<proc_cpu_cache, call_cache, curr_snapshot, interval_us, cpu_count, results,
              cpu_phase, evicted_pids>>

partyVars == <<audio_available, app_running, current_refresh_rate, party_mode,
               party_visualizer, party_prev_refresh_rate, last_cmd, cmd_count,
               rate_at_entry, speed_in_party, vis_stops>>

loopVars == <<pc, clock, now, refresh_interval, iter_mode, last_update,
              last_process_update, poll_end, calls, iterations>>

magVars == <<ram_magnitude, swap_magnitude, disk_magnitude, cpu_magnitudes, heap, writes>>

streamVars == <<running, stream, stream_active, sample_rate>>

cbVars == <<cb_pc, cb_mags, cb_i, callbacks>>

mainVars == <<m_pc, ret, main_ops, stops>>

audioVars == <<lock, magVars, streamVars, cbVars, mainVars>>

startVars ==
    <<devices, device_id, st_pc, sample_rates_to_try, configs_to_try, cfg_i, attempts, start_ret,
      dropped>>

snapVars == <<gp_pc, buf_size, kernel_status, too_small, processes, ticks, gp_failed>>

smoothVars == <<sm_pc, sm_val, sm_target, sm_prev, sm_steps>>

keyVars == <<kbd, pending_confirmation, hi_pc>>

walkVars == <<wk_pc, wk_buf, wk_chain, wk_offset, wk_results>>

timeVars == <<wall, prev_proc_time, cache_since, gp_now, gp_interval, last_call, cycles, tm_pc>>

rateVars == <<stream_rate, cb_rate, rate_cbs>>

killVars == <<kbq, input_buffer, pending_action, acts, tally, presses>>

lateVars == <<timeVars, rateVars, killVars>>

vars == <<cpuVars, partyVars, loopVars, audioVars, startVars, snapVars, smoothVars,
          keyVars, walkVars, lateVars>>

None == "None"

-----------------------------------------------------------------------------
(* Exact rational arithmetic, standing for Python's float arithmetic.      *)

Abs(x) == IF x < 0 THEN -x ELSE x

Max(a, b) == IF a >= b THEN a ELSE b

Min(a, b) == IF a <= b THEN a ELSE b

RECURSIVE GCD(_, _)
GCD(a, b) == IF b = 0 THEN a ELSE GCD(b, a % b)

\* n/d in lowest terms with a positive denominator (d # 0)
Rat(n, d) ==
    LET g == GCD(Abs(n), Abs(d))
        s == IF d < 0 THEN -1 ELSE 1
    IN  <<(s * n) \div g, (s * d) \div g>>

RatMul(a, b) == Rat(a[1] * b[1], a[2] * b[2])

RatDiv(a, b) == Rat(a[1] * b[2], a[2] * b[1])

RatLt(a, b) == a[1] * b[2] < b[1] * a[2]

RatMax(a, b) == IF RatLt(a, b) THEN b ELSE a

RatMin(a, b) == IF RatLt(b, a) THEN b ELSE a

-----------------------------------------------------------------------------
(* modules/processsn.py: compute_cpu_deltas                                *)

\* 0.05 s
MinIntervalUs == 50000

TicksPerSecond == 10000000

\* interval_seconds after "if interval_seconds < 0.05: interval_seconds = 0.05"
FloorIntervalTooLow(us) ==
    IF us < 5000 THEN Rat(5000, 1000000) ELSE Rat(us, 1000000)

FloorInterval(us) ==
    IF us < MinIntervalUs THEN Rat(MinIntervalUs, 1000000) ELSE Rat(us, 1000000)

TotalTimeUserOnly(rec) == rec.user_time_100ns

\* proc["user_time_100ns"] + proc["kernel_time_100ns"]
TotalTime(rec) == rec.user_time_100ns + rec.kernel_time_100ns

NoClamp(cpu) == cpu

\* cpu = max(0.0, min(cpu, 100.0))
Clamp(cpu) == RatMax(Rat(0, 1), RatMin(cpu, Rat(100, 1)))

\* the body of the "if prev:" branch
CpuOf(prev, proc, interval, ncpu) ==
    LET dt_100ns   == Max(0, TotalTime(proc) - TotalTime(prev))
        dt_seconds == RatDiv(Rat(dt_100ns, 1), Rat(TicksPerSecond, 1))
    IN  RatDiv(RatMul(RatDiv(dt_seconds, interval), Rat(100, 1)), Rat(Max(1, ncpu), 1))

Raw(proc) == [user_time_100ns |-> proc.user_time_100ns,
              kernel_time_100ns |-> proc.kernel_time_100ns]

CachePutKeepsOld(cache, pid, rec) ==
    [p \in DOMAIN cache \cup {pid} |->
        IF p \in DOMAIN cache THEN cache[p] ELSE rec]

\* prev_cache[pid] = proc
CachePut(cache, pid, rec) ==
    [p \in DOMAIN cache \cup {pid} |-> IF p = pid THEN rec ELSE cache[p]]

FirstSightAsCached(cache, proc, interval, ncpu) ==
    IF proc.pid \in DOMAIN cache
    THEN CpuOf(cache[proc.pid], proc, interval, ncpu)
    ELSE CpuOf([user_time_100ns |-> 0, kernel_time_100ns |-> 0], proc, interval, ncpu)

\* one pass of the "for proc in curr_snapshot" body, before the clamp
RawCpu(cache, proc, interval, ncpu) ==
    IF proc.pid \in DOMAIN cache
    THEN CpuOf(cache[proc.pid], proc, interval, ncpu)
    ELSE Rat(0, 1)

\* the loop over curr_snapshot: the results and the cache after i records
RECURSIVE DeltaLoop(_, _, _, _, _)
DeltaLoop(cache, snap, i, interval, ncpu) ==
    IF i = 0 THEN [results |-> <<>>, cache |-> cache]
    ELSE LET before == DeltaLoop(cache, snap, i - 1, interval, ncpu)
             proc   == snap[i]
             cpu    == Clamp(RawCpu(before.cache, proc, interval, ncpu))
         IN  [results |-> Append(before.results, [pid |-> proc.pid, cpu_percent |-> cpu]),
              cache   |-> CachePut(before.cache, proc.pid, Raw(proc))]

SeenPids(snap) == {snap[i].pid : i \in 1..Len(snap)}

NoEvict(cache, seen_pids) == cache

\* dead_pids = [pid for pid in prev_cache if pid not in seen_pids]; del each
Evict(cache, seen_pids) == [p \in DOMAIN cache \cap seen_pids |-> cache[p]]

ComputeCpuDeltas(prev_cache, snap, us, ncpu) ==
    LET interval == FloorInterval(us)
        looped   == DeltaLoop(prev_cache, snap, Len(snap), interval, ncpu)
    IN  [results |-> looped.results,
         cache   |-> Evict(looped.cache, SeenPids(snap))]

-----------------------------------------------------------------------------
(* Inputs of compute_cpu_deltas.  A snapshot is the kernel's process       *)
(* table at one instant: one record per live process, so the pids within   *)
(* one snapshot are distinct.                                               *)

Pids == {0, 4}

\* <<user_time_100ns, kernel_time_100ns>>: totals 1000, 1400 and 600000
TickPairs == {<<1000, 0>>, <<1000, 400>>, <<0, 600000>>}

IntervalsUs == {-100000, 0, 1000, 50000, 1000000}

CpuCounts == {-1, 0, 1, 4}

\* <<interval_seconds in microseconds, cpu_count>>
CallArgs == IntervalsUs \X CpuCounts

Records == {[pid |-> p, user_time_100ns |-> t[1], kernel_time_100ns |-> t[2]] :
              p \in Pids, t \in TickPairs}

Snapshots ==
    {<<>>} \cup {<<r>> : r \in Records}
    \cup {<<r[1], r[2]>> : r \in {x \in Records \X Records : x[1].pid # x[2].pid}}

EmptyCache == [p \in {} |-> 0]

CpuInit ==
    /\ proc_cpu_cache = EmptyCache
    /\ call_cache = EmptyCache
    /\ curr_snapshot = <<>>
    /\ interval_us = 0
    /\ cpu_count = 0
    /\ results = <<>>
    /\ cpu_phase = "called"
    /\ evicted_pids = {}

\* a fresh list from get_native_process_snapshot, before it is processed
TakeSnapshot ==
    /\ cpu_phase = "called"
    /\ cpu_phase' = "snapshot"
    /\ \E snap \in Snapshots : curr_snapshot' = snap
    /\ call_cache' = proc_cpu_cache
    /\ interval_us' = 0
    /\ cpu_count' = 0
    /\ results' = <<>>
    /\ UNCHANGED <<proc_cpu_cache, evicted_pids>>

\* one call compute_cpu_deltas(state.proc_cpu_cache, snapshot, interval, num_cpus)
CpuDeltaCycle ==
    /\ cpu_phase = "snapshot"
    /\ cpu_phase' = "called"
    /\ \E args \in CallArgs :
        LET us   == args[1]
            ncpu == args[2]
            out  == ComputeCpuDeltas(proc_cpu_cache, curr_snapshot, us, ncpu)
        IN  /\ interval_us' = us
            /\ cpu_count' = ncpu
            /\ results' = out.results
            /\ proc_cpu_cache' = out.cache
            /\ evicted_pids' = evicted_pids \cup (DOMAIN proc_cpu_cache \ DOMAIN out.cache)
    /\ UNCHANGED <<call_cache, curr_snapshot>>

-----------------------------------------------------------------------------
(* modules/config.py: REFRESH_RATES, in microseconds                       *)

REFRESH_RATES ==
    [slow |-> 3000000, medium |-> 2000000, fast |-> 1000000,
     superfast |-> 500000, ultrafast |-> 100000, party |-> 16700]

Rates == DOMAIN REFRESH_RATES

-----------------------------------------------------------------------------
(* modules/audio_vis.py, as the main thread sees it: the constructor and   *)
(* start() either leave a running visualizer or fail.                      *)

\* how AudioVisualizer.start() ends: a stream opened and started (True), no
\* stream could be opened (False), or the last stream opened but did not
\* start (False, with the unstarted stream left in _stream)
StartOutcomes == {"started", "not_opened", "not_started"}

\* state.party_visualizer = None
NoVisualizer == <<>>

NewVisualizer == [running |-> FALSE, stream |-> None]

Started(vis, outcome) ==
    CASE outcome = "started"     -> [running |-> TRUE, stream |-> "active"]
      [] outcome = "not_started" -> [vis EXCEPT !.stream = "unstarted"]
      [] OTHER                   -> vis

-----------------------------------------------------------------------------
(* modules/input.py: handle_party_command and execute_command              *)

\* party_visualizer.stop(), when party_visualizer is set
StopVisualizer(log) ==
    IF party_visualizer # NoVisualizer /\ log # <<>>
    THEN [log EXCEPT ![Len(log)] = @ + 1]
    ELSE log

PartyOffNoRestore ==
    /\ party_mode' = FALSE
    /\ party_visualizer' = NoVisualizer
    /\ vis_stops' = StopVisualizer(vis_stops)
    /\ party_prev_refresh_rate' = None
    /\ UNCHANGED current_refresh_rate
    /\ last_cmd' = "party_off"
    /\ UNCHANGED <<rate_at_entry, speed_in_party>>

\* the "if state.party_mode:" branch
PartyOff ==
    /\ party_mode' = FALSE
    /\ party_visualizer' = NoVisualizer
    /\ vis_stops' = StopVisualizer(vis_stops)
    /\ IF party_prev_refresh_rate # None
       THEN /\ current_refresh_rate' = party_prev_refresh_rate
            /\ party_prev_refresh_rate' = None
       ELSE UNCHANGED <<current_refresh_rate, party_prev_refresh_rate>>
    /\ last_cmd' = "party_off"
    /\ UNCHANGED <<rate_at_entry, speed_in_party>>

PartyOnKeepsFailed(ctor_ok, outcome) ==
    IF ctor_ok /\ outcome = "started"
    THEN /\ party_visualizer' = <<Started(NewVisualizer, outcome)>>
         /\ party_mode' = TRUE
         /\ party_prev_refresh_rate' = current_refresh_rate
         /\ current_refresh_rate' = "party"
         /\ last_cmd' = "party_on"
         /\ rate_at_entry' = current_refresh_rate
         /\ speed_in_party' = FALSE
         /\ vis_stops' = Append(vis_stops, 0)
    ELSE /\ party_visualizer' = IF ctor_ok THEN <<Started(NewVisualizer, outcome)>>
                                ELSE NoVisualizer
         /\ last_cmd' = IF ctor_ok THEN "party_start_failed" ELSE "party_ctor_failed"
         /\ UNCHANGED <<party_mode, party_prev_refresh_rate, current_refresh_rate,
                        rate_at_entry, speed_in_party, vis_stops>>

\* the "else:" branch: the constructor raises (ctor_ok false) or start()
\* returns; every exception is caught by "except Exception"
PartyOn(ctor_ok, outcome) ==
    IF ctor_ok /\ outcome = "started"
    THEN /\ party_visualizer' = <<Started(NewVisualizer, outcome)>>
         /\ party_mode' = TRUE
         /\ party_prev_refresh_rate' = current_refresh_rate
         /\ current_refresh_rate' = "party"
         /\ last_cmd' = "party_on"
         /\ rate_at_entry' = current_refresh_rate
         /\ speed_in_party' = FALSE
         /\ vis_stops' = Append(vis_stops, 0)
    ELSE /\ party_visualizer' = NoVisualizer
         /\ last_cmd' = IF ctor_ok THEN "party_start_failed" ELSE "party_ctor_failed"
         /\ UNCHANGED <<party_mode, party_prev_refresh_rate, current_refresh_rate,
                        rate_at_entry, speed_in_party, vis_stops>>

HandlePartyCommand(ctor_ok, outcome) ==
    IF ~audio_available
    THEN /\ last_cmd' = "party_unavailable"
         /\ UNCHANGED <<party_mode, party_visualizer, party_prev_refresh_rate,
                        current_refresh_rate, rate_at_entry, speed_in_party, vis_stops>>
    ELSE IF party_mode THEN PartyOff ELSE PartyOn(ctor_ok, outcome)

SpeedArgs == Rates \cup {"bogus"}

\* cmd == "speed"
SpeedCommand(arg) ==
    /\ IF arg \in Rates
       THEN /\ current_refresh_rate' = arg
            /\ last_cmd' = "speed"
            /\ speed_in_party' = (speed_in_party \/ party_mode)
       ELSE /\ last_cmd' = "speed_usage"
            /\ UNCHANGED <<current_refresh_rate, speed_in_party>>
    /\ UNCHANGED <<party_mode, party_visualizer, party_prev_refresh_rate, rate_at_entry,
                   vis_stops>>

MaxCmds == 3

\* one command line executed by handle_input (execute_command), or Ctrl+C
ExecCommand ==
    /\ pc = "input"
    /\ cmd_count < MaxCmds
    /\ cmd_count' = cmd_count + 1
    /\ \/ /\ \E ctor_ok \in BOOLEAN, outcome \in StartOutcomes :
                HandlePartyCommand(ctor_ok, outcome)
          /\ UNCHANGED app_running
       \/ /\ \E arg \in SpeedArgs : SpeedCommand(arg)
          /\ UNCHANGED app_running
       \/ /\ app_running' = FALSE
          /\ last_cmd' = "quit"
          /\ UNCHANGED <<current_refresh_rate, party_mode, party_visualizer,
                         party_prev_refresh_rate, rate_at_entry, speed_in_party,
                         vis_stops>>
    /\ UNCHANGED <<audio_available, loopVars, cpuVars>>

PartyInit ==
    /\ audio_available \in BOOLEAN
    /\ app_running = TRUE
    /\ current_refresh_rate = "slow"
    /\ party_mode = FALSE
    /\ party_visualizer = NoVisualizer
    /\ party_prev_refresh_rate = None
    /\ last_cmd = None
    /\ cmd_count = 0
    /\ rate_at_entry = None
    /\ speed_in_party = FALSE
    /\ vis_stops = <<>>

-----------------------------------------------------------------------------
(* task_manager.py: main                                                    *)

HalfSecond == 500000

PollWindow == 100000

PollSleep == 20000

MinSleep == 1000

\* the time the sampling and render calls of one iteration take
WorkTimes == {0, 400000}

Epoch == 5000000

MaxIter == 3

IsHighSpeedInclusive(interval) == interval <= HalfSecond

\* line 81: is_high_speed
IsHighSpeed(interval) == interval < HalfSecond

SlowUpdateIntervalSame(interval) == interval

\* line 82: slow_update_interval
SlowUpdateInterval(interval) ==
    IF IsHighSpeed(interval) THEN HalfSecond ELSE interval

IterationCallsInputFirst(sampling) == sampling \o <<"handle_input", "render">>

\* lines 72-73 and 102-113: after the sampling calls render, then the first
\* handle_input
IterationCalls(sampling) == sampling \o <<"render", "handle_input">>

\* the calls of lines 85-100, given which updates are due
Sampling(is_high_speed, fast_due, slow_due) ==
    (IF fast_due
     THEN <<IF is_high_speed THEN "update_system_stats_fast" ELSE "update_system_stats">>
     ELSE <<>>)
    \o (IF slow_due /\ is_high_speed THEN <<"update_system_stats_slow">> ELSE <<>>)
    \o (IF slow_due THEN <<"get_processes">> ELSE <<>>)

PartyIterationSamples ==
    /\ iter_mode' = "party"
    /\ calls' = <<"update_system_stats_fast", "render", "handle_input">>
    /\ last_update' = clock
    /\ UNCHANGED <<last_process_update, poll_end>>

\* lines 70-75: render, then handle_input
PartyIteration ==
    /\ iter_mode' = "party"
    /\ calls' = IterationCalls(<<>>)
    /\ UNCHANGED <<last_update, last_process_update, poll_end>>

\* lines 81-113, up to the first call of handle_input
SamplingIteration(work) ==
    LET interval        == REFRESH_RATES[current_refresh_rate]
        is_high_speed   == IsHighSpeed(interval)
        slow_update_interval == SlowUpdateInterval(interval)
        fast_due        == clock - last_update >= interval
        slow_due        == clock - last_process_update >= slow_update_interval
    IN  /\ iter_mode' = IF is_high_speed THEN "high" ELSE "normal"
        /\ calls' = IterationCalls(Sampling(is_high_speed, fast_due, slow_due))
        /\ last_update' = IF fast_due THEN clock ELSE last_update
        /\ last_process_update' = IF slow_due THEN clock ELSE last_process_update
        /\ poll_end' = IF is_high_speed THEN poll_end
                       ELSE clock + work + Min(PollWindow, interval \div 2)

\* one pass of "while state.app_running:" up to the first handle_input
LoopTop ==
    /\ pc = "top"
    /\ app_running
    /\ iterations < MaxIter
    /\ iterations' = iterations + 1
    /\ now' = clock
    /\ refresh_interval' = REFRESH_RATES[current_refresh_rate]
    /\ \E work \in WorkTimes :
          /\ clock' = clock + work
          /\ IF party_mode THEN PartyIteration ELSE SamplingIteration(work)
    /\ pc' = "input"
    /\ UNCHANGED <<partyVars, cpuVars>>

InputReturnNoBreak ==
    /\ pc = "input"
    /\ IF iter_mode \in {"party", "high"}
       THEN /\ clock' = clock + Max(MinSleep, refresh_interval \div 2)
            /\ pc' = "top"
            /\ UNCHANGED calls
       ELSE /\ clock' = clock + PollSleep
            /\ IF clock' < poll_end
               THEN pc' = "input" /\ calls' = Append(calls, "handle_input")
               ELSE pc' = "top" /\ UNCHANGED calls
    /\ UNCHANGED <<now, refresh_interval, iter_mode, last_update, last_process_update,
                   poll_end, iterations, partyVars, cpuVars>>

\* handle_input returns: the sleep of line 74 or 108, or one turn of the
\* poll loop of lines 112-116
InputReturn ==
    /\ pc = "input"
    /\ IF iter_mode \in {"party", "high"}
       THEN /\ clock' = clock + Max(MinSleep, refresh_interval \div 2)
            /\ pc' = "top"
            /\ UNCHANGED calls
       ELSE IF ~app_running
            THEN /\ pc' = "top"
                 /\ UNCHANGED <<clock, calls>>
            ELSE /\ clock' = clock + PollSleep
                 /\ IF clock' < poll_end
                    THEN pc' = "input" /\ calls' = Append(calls, "handle_input")
                    ELSE pc' = "top" /\ UNCHANGED calls
    /\ UNCHANGED <<now, refresh_interval, iter_mode, last_update, last_process_update,
                   poll_end, iterations, partyVars, cpuVars>>

CleanupSkipped ==
    /\ pc' = "done"
    /\ UNCHANGED <<party_visualizer, vis_stops>>
    /\ UNCHANGED <<clock, now, refresh_interval, iter_mode, last_update,
                   last_process_update, poll_end, calls, iterations, cpuVars>>

\* lines 127-136, "finally:": the visualizer is stopped if one is set
Cleanup ==
    /\ pc' = "done"
    /\ party_visualizer' = IF party_visualizer # NoVisualizer
                           THEN <<[running |-> FALSE, stream |-> None]>>
                           ELSE party_visualizer
    /\ vis_stops' = StopVisualizer(vis_stops)
    /\ UNCHANGED <<clock, now, refresh_interval, iter_mode, last_update,
                   last_process_update, poll_end, calls, iterations, cpuVars>>

\* the loop ends because app_running is false
LoopExit ==
    /\ pc = "top"
    /\ ~app_running
    /\ Cleanup
    /\ UNCHANGED <<audio_available, app_running, current_refresh_rate, party_mode,
                   party_prev_refresh_rate, last_cmd, cmd_count, rate_at_entry,
                   speed_in_party>>

\* lines 118-126: KeyboardInterrupt, or an exception of a sampling call, of
\* render or of handle_input, ends the loop wherever the main thread is,
\* except inside the toggle-off (see below)
LoopAbort ==
    /\ pc \in {"top", "input"}
    /\ Cleanup
    /\ UNCHANGED <<audio_available, app_running, current_refresh_rate, party_mode,
                   party_prev_refresh_rate, last_cmd, cmd_count, rate_at_entry,
                   speed_in_party>>

\* KeyboardInterrupt arrives while the toggle-off is in, or has just left,
\* party_visualizer.stop() (input.py line 64), before line 65 clears
\* party_visualizer: "finally:" finds it set and stops it again
InterruptedPartyOff ==
    /\ pc = "input"
    /\ cmd_count < MaxCmds
    /\ audio_available
    /\ party_mode
    /\ cmd_count' = cmd_count + 1
    /\ last_cmd' = "party_off_interrupted"
    /\ party_mode' = FALSE
    /\ pc' = "done"
    /\ party_visualizer' = IF party_visualizer # NoVisualizer
                           THEN <<[running |-> FALSE, stream |-> None]>>
                           ELSE party_visualizer
    /\ vis_stops' = StopVisualizer(StopVisualizer(vis_stops))
    /\ UNCHANGED <<audio_available, app_running, current_refresh_rate,
                   party_prev_refresh_rate, rate_at_entry, speed_in_party>>
    /\ UNCHANGED <<clock, now, refresh_interval, iter_mode, last_update,
                   last_process_update, poll_end, calls, iterations, cpuVars>>

LoopInit ==
    /\ pc = "top"
    /\ clock = Epoch
    /\ now = Epoch
    /\ refresh_interval = REFRESH_RATES["slow"]
    /\ iter_mode = "normal"
    /\ last_update = 0
    /\ last_process_update = 0
    /\ poll_end = 0
    /\ calls = <<>>
    /\ iterations = 0

-----------------------------------------------------------------------------
(* modules/audio_vis.py: the magnitudes shared by the capture thread       *)
(* (_audio_callback) and the main thread (get_magnitudes, stop), one       *)
(* attribute access per step.  Lists are objects on a heap, so that a      *)
(* reference and a copy differ.                                             *)

NumCores == 2

MaxCallbacks == 2

MaxMainOps == 4

RatAdd(a, b) ==
    LET g == GCD(a[2], b[2])
    IN  Rat(a[1] * (b[2] \div g) + b[1] * (a[2] \div g), (a[2] \div g) * b[2])

\* self._smoothing = 0.3
Smoothing == <<3, 10>>

\* old_val * self._smoothing + new_val * (1 - self._smoothing)
Smooth(old_val, new_val) ==
    RatAdd(RatMul(old_val, Smoothing), RatMul(new_val, RatAdd(<<1, 1>>, RatMul(<<-1, 1>>, Smoothing))))

ZeroList == [i \in 1..NumCores |-> <<0, 1>>]

\* self.block_size = 2048
BlockSize == 2048

\* the length of np.fft.rfft of one block
NumBins == BlockSize \div 2 + 1

\* the rates start() may leave in self.sample_rate
SampleRates == {8000, 44100}

\* the band edges in tenths of a hertz
BASS_LOW == 600

BASS_HIGH == 1200

LOW_MID_LOW == 1200

LOW_MID_HIGH == 5000

HIGH_MID_LOW == 20000

HIGH_MID_HIGH == 60000

\* _compute_cpu_bands: np.logspace(log10(200), log10(16000), n + 1), in
\* tenths of a hertz
CpuBandEdges(n) ==
    CASE n = 1 -> <<2000, 160000>>
      [] n = 2 -> <<2000, 17889, 160000>>
      [] n = 3 -> <<2000, 8618, 37133, 160000>>
      [] OTHER -> <<2000, 5981, 17889, 53499, 160000>>

\* int(freq * self.block_size / self.sample_rate)
FreqToBin(freq10, rate) == (freq10 * BlockSize) \div (rate * 10)

RECURSIVE SumBins(_, _, _)
\* the sum of mags[lo..hi], by halves
SumBins(mags, lo, hi) ==
    IF lo > hi THEN <<0, 1>>
    ELSE IF lo = hi THEN mags[lo]
    ELSE LET mid == (lo + hi) \div 2
         IN  RatAdd(SumBins(mags, lo, mid), SumBins(mags, mid + 1, hi))

\* _get_band_magnitude: the mean of fft_magnitudes[low_bin:high_bin]
GetBandMagnitude(mags, low10, high10, rate) ==
    LET low_bin  == Max(1, FreqToBin(low10, rate))
        high_bin == Min(NumBins - 1, FreqToBin(high10, rate))
    IN  IF high_bin <= low_bin THEN <<0, 1>>
        ELSE RatDiv(SumBins(mags, low_bin, high_bin - 1), <<high_bin - low_bin, 1>>)

MaxOf(raw) == CHOOSE m \in {raw[b] : b \in DOMAIN raw} : \A b \in DOMAIN raw : raw[b] <= m

Unnormalized(raw) == [b \in DOMAIN raw |-> <<raw[b], 1>>]

\* lines 115-117: magnitudes / max_mag when max_mag > 0
Normalized(raw) ==
    LET max_mag == MaxOf(raw)
    IN  IF max_mag > 0 THEN [b \in DOMAIN raw |-> Rat(raw[b], max_mag)]
        ELSE [b \in DOMAIN raw |-> <<raw[b], 1>>]

\* lines 120-127: the band values of one buffer
Bands(raw, rate) ==
    LET magnitudes == Normalized(raw)
        edges == CpuBandEdges(NumCores)
        Band(lo, hi) == RatMul(GetBandMagnitude(magnitudes, lo, hi, rate), <<100, 1>>)
    IN  [ram  |-> Band(BASS_LOW, BASS_HIGH),
         swap |-> Band(LOW_MID_LOW, LOW_MID_HIGH),
         disk |-> Band(HIGH_MID_LOW, HIGH_MID_HIGH),
         cpu  |-> [i \in 1..NumCores |-> Band(edges[i], edges[i + 1])]]

\* np.abs(fft) of one buffer, bin 0 to bin NumBins - 1: silence, a flat
\* spectrum, a low tone, and a spectrum falling off above bin 99
RawSpectra ==
    <<[b \in 0..(NumBins - 1) |-> 0],
      [b \in 0..(NumBins - 1) |-> 3],
      [b \in 0..(NumBins - 1) |-> IF b < 20 THEN 7 ELSE 0],
      [b \in 0..(NumBins - 1) |-> IF b < 100 THEN 4 ELSE 1]>>

\* the band values of each spectrum at each rate
Spectra == [rate \in SampleRates |-> [s \in DOMAIN RawSpectra |-> Bands(RawSpectra[s], rate)]]

NoRet == [done |-> FALSE]

\* the list objects still referenced: the visualizer's and the returned one
Live(ref, r) == {ref} \cup (IF "cpu" \in DOMAIN r THEN {r.cpu} ELSE {})

\* a list object not in use
FreshRef(h) == CHOOSE id \in 1..(Cardinality(DOMAIN h) + 1) : id \notin DOMAIN h

\* the heap without the list objects nothing refers to
Collect(h, live) == [id \in DOMAIN h \cap live |-> h[id]]

Bump(w, field) == [w EXCEPT ![field] = @ + 1]

BumpCpu(w, i) == [w EXCEPT !.cpu[i] = @ + 1]

AudioInit ==
    /\ lock = "free"
    /\ ram_magnitude = <<0, 1>>
    /\ swap_magnitude = <<0, 1>>
    /\ disk_magnitude = <<0, 1>>
    /\ cpu_magnitudes = 1
    /\ heap = [id \in {1} |-> ZeroList]
    /\ writes = [ram |-> 0, swap |-> 0, disk |-> 0, cpu |-> [i \in 1..NumCores |-> 0]]
    /\ running = FALSE
    /\ stream = None
    /\ stream_active = FALSE
    /\ sample_rate = 44100
    /\ cb_pc = "idle"
    /\ cb_mags = [ram |-> <<0, 1>>, swap |-> <<0, 1>>, disk |-> <<0, 1>>, cpu |-> ZeroList]
    /\ cb_i = 1
    /\ callbacks = 0
    /\ m_pc = "idle"
    /\ ret = NoRet
    /\ main_ops = 0
    /\ stops = 0

\* ---- the capture thread: _audio_callback

\* the number of frames of a delivered buffer: none, or a full block
Frames == {0, BlockSize}

\* lines 97-127: the stream delivers a buffer; the band values are computed.
\* For a buffer without frames np.fft.rfft (line 111) raises ValueError,
\* which nothing in the callback catches
CbCompute ==
    /\ cb_pc = "idle"
    /\ stream_active
    /\ callbacks < MaxCallbacks
    /\ callbacks' = callbacks + 1
    /\ \E frames \in Frames :
          IF frames = 0
          THEN cb_pc' = "raised" /\ UNCHANGED cb_mags
          ELSE /\ \E s \in DOMAIN RawSpectra : cb_mags' = Spectra[sample_rate][s]
               /\ cb_pc' = "lock"
    /\ UNCHANGED <<cb_i, lock, magVars, streamVars, mainVars>>

\* the exception has left _audio_callback: the audio library, which owns the
\* capture thread, goes on delivering buffers or aborts the stream
CbUnwind ==
    /\ cb_pc = "raised"
    /\ cb_pc' = "idle"
    /\ \E goes_on \in BOOLEAN : stream_active' = (stream_active /\ goes_on)
    /\ UNCHANGED <<running, stream, sample_rate>>
    /\ UNCHANGED <<cb_mags, cb_i, callbacks, lock, magVars, mainVars>>

\* line 130: with self._lock
CbAcquire ==
    /\ cb_pc = "lock"
    /\ lock = "free"
    /\ lock' = "capture"
    /\ cb_pc' = "ram"
    /\ UNCHANGED <<cb_mags, cb_i, callbacks, magVars, streamVars, mainVars>>

\* line 131
CbWriteRam ==
    /\ cb_pc = "ram"
    /\ ram_magnitude' = Smooth(ram_magnitude, cb_mags.ram)
    /\ writes' = Bump(writes, "ram")
    /\ cb_pc' = "swap"
    /\ UNCHANGED <<swap_magnitude, disk_magnitude, cpu_magnitudes, heap>>
    /\ UNCHANGED <<cb_mags, cb_i, callbacks, lock, streamVars, mainVars>>

\* line 132
CbWriteSwap ==
    /\ cb_pc = "swap"
    /\ swap_magnitude' = Smooth(swap_magnitude, cb_mags.swap)
    /\ writes' = Bump(writes, "swap")
    /\ cb_pc' = "disk"
    /\ UNCHANGED <<ram_magnitude, disk_magnitude, cpu_magnitudes, heap>>
    /\ UNCHANGED <<cb_mags, cb_i, callbacks, lock, streamVars, mainVars>>

\* line 133
CbWriteDisk ==
    /\ cb_pc = "disk"
    /\ disk_magnitude' = Smooth(disk_magnitude, cb_mags.disk)
    /\ writes' = Bump(writes, "disk")
    /\ cb_pc' = "cpu"
    /\ cb_i' = 1
    /\ UNCHANGED <<ram_magnitude, swap_magnitude, cpu_magnitudes, heap>>
    /\ UNCHANGED <<cb_mags, callbacks, lock, streamVars, mainVars>>

\* lines 135-137: one turn of the loop over cpu_mags, writing in place
CbWriteCpu ==
    /\ cb_pc = "cpu"
    /\ IF cb_i <= Len(heap[cpu_magnitudes])
       THEN /\ heap' = [heap EXCEPT ![cpu_magnitudes][cb_i] = Smooth(@, cb_mags.cpu[cb_i])]
            /\ writes' = BumpCpu(writes, cb_i)
       ELSE UNCHANGED <<heap, writes>>
    /\ IF cb_i < Len(cb_mags.cpu)
       THEN cb_i' = cb_i + 1 /\ cb_pc' = "cpu"
       ELSE cb_i' = 1 /\ cb_pc' = "unlock"
    /\ UNCHANGED <<ram_magnitude, swap_magnitude, disk_magnitude, cpu_magnitudes>>
    /\ UNCHANGED <<cb_mags, callbacks, lock, streamVars, mainVars>>

\* the end of the with block; the callback returns
CbRelease ==
    /\ cb_pc = "unlock"
    /\ lock' = "free"
    /\ cb_pc' = "idle"
    /\ UNCHANGED <<cb_mags, cb_i, callbacks, magVars, streamVars, mainVars>>

\* ---- the main thread: start

\* start(): returns True at once when running; else a stream is opened and
\* started, or every configuration fails
Start ==
    /\ m_pc = "idle"
    /\ main_ops < MaxMainOps
    /\ main_ops' = main_ops + 1
    /\ IF running
       THEN UNCHANGED streamVars
       ELSE \E outcome \in StartOutcomes :
               LET v == Started([running |-> running, stream |-> stream], outcome)
               IN  /\ running' = v.running
                   /\ stream' = v.stream
                   /\ stream_active' = (outcome = "started" \/ stream_active)
                   /\ IF outcome = "started"
                      THEN \E rate \in SampleRates : sample_rate' = rate
                      ELSE UNCHANGED sample_rate
    /\ stops' = 0
    /\ UNCHANGED <<m_pc, ret, lock, magVars, cbVars>>

\* ---- the main thread: get_magnitudes

GmCall ==
    /\ m_pc = "idle"
    /\ main_ops < MaxMainOps
    /\ main_ops' = main_ops + 1
    /\ m_pc' = "gm_lock"
    /\ ret' = NoRet
    /\ stops' = 0
    /\ heap' = Collect(heap, {cpu_magnitudes})
    /\ UNCHANGED <<ram_magnitude, swap_magnitude, disk_magnitude, cpu_magnitudes, writes>>
    /\ UNCHANGED <<lock, streamVars, cbVars>>

GmAcquireNoLock ==
    /\ m_pc = "gm_lock"
    /\ m_pc' = "gm_ram"
    /\ UNCHANGED <<lock, ret, main_ops, stops, magVars, streamVars, cbVars>>

\* line 326: with self._lock
GmAcquire ==
    /\ m_pc = "gm_lock"
    /\ lock = "free"
    /\ lock' = "main"
    /\ m_pc' = "gm_ram"
    /\ UNCHANGED <<ret, main_ops, stops, magVars, streamVars, cbVars>>

\* line 328
GmReadRam ==
    /\ m_pc = "gm_ram"
    /\ ret' = [done |-> FALSE, ram |-> ram_magnitude, v_ram |-> writes.ram]
    /\ m_pc' = "gm_swap"
    /\ UNCHANGED <<main_ops, stops, lock, magVars, streamVars, cbVars>>

\* line 329
GmReadSwap ==
    /\ m_pc = "gm_swap"
    /\ ret' = [done |-> FALSE, ram |-> ret.ram, v_ram |-> ret.v_ram,
               swap |-> swap_magnitude, v_swap |-> writes.swap]
    /\ m_pc' = "gm_disk"
    /\ UNCHANGED <<main_ops, stops, lock, magVars, streamVars, cbVars>>

\* line 330
GmReadDisk ==
    /\ m_pc = "gm_disk"
    /\ ret' = [done |-> FALSE, ram |-> ret.ram, v_ram |-> ret.v_ram,
               swap |-> ret.swap, v_swap |-> ret.v_swap,
               disk |-> disk_magnitude, v_disk |-> writes.disk]
    /\ m_pc' = "gm_cpu"
    /\ UNCHANGED <<main_ops, stops, lock, magVars, streamVars, cbVars>>

\* line 331: list(self._cpu_magnitudes), a new list object
GmCopyCpu ==
    /\ m_pc = "gm_cpu"
    /\ LET copy == FreshRef(heap)
       IN  /\ heap' = [id \in DOMAIN heap \cup {copy} |->
                          IF id = copy THEN heap[cpu_magnitudes] ELSE heap[id]]
           /\ ret' = [done |-> FALSE, ram |-> ret.ram, v_ram |-> ret.v_ram,
                      swap |-> ret.swap, v_swap |-> ret.v_swap,
                      disk |-> ret.disk, v_disk |-> ret.v_disk,
                      cpu |-> copy, cpu_items |-> heap[cpu_magnitudes],
                      v_cpu |-> writes.cpu]
    /\ m_pc' = "gm_unlock"
    /\ UNCHANGED <<ram_magnitude, swap_magnitude, disk_magnitude, cpu_magnitudes, writes>>
    /\ UNCHANGED <<main_ops, stops, lock, streamVars, cbVars>>

\* the end of the with block; the dict is returned
GmRelease ==
    /\ m_pc = "gm_unlock"
    /\ lock' = "free"
    /\ ret' = [ret EXCEPT !.done = TRUE]
    /\ m_pc' = "idle"
    /\ UNCHANGED <<main_ops, stops, magVars, streamVars, cbVars>>

\* ---- the main thread: stop

\* lines 303-304
StopCall ==
    /\ m_pc = "idle"
    /\ main_ops < MaxMainOps
    /\ main_ops' = main_ops + 1
    /\ running' = FALSE
    /\ m_pc' = IF stream # None THEN "stop_stream" ELSE "stop_lock"
    /\ UNCHANGED <<stream, stream_active, sample_rate, ret, stops, lock, magVars, cbVars>>

StopStreamKeptOnRaise ==
    /\ m_pc = "stop_stream"
    /\ \/ /\ cb_pc = "idle"
          /\ stream_active' = FALSE
          /\ stream' = None
       \/ UNCHANGED <<stream_active, stream>>
    /\ m_pc' = "stop_lock"
    /\ UNCHANGED <<running, sample_rate, ret, main_ops, stops, lock, magVars, cbVars>>

\* lines 305-310: stream.stop() returns once no callback is running and
\* none will be; or stop()/close() raises, which is swallowed
StopStream ==
    /\ m_pc = "stop_stream"
    /\ \/ /\ cb_pc = "idle"
          /\ stream_active' = FALSE
       \/ UNCHANGED stream_active
    /\ stream' = None
    /\ m_pc' = "stop_lock"
    /\ UNCHANGED <<running, sample_rate, ret, main_ops, stops, lock, magVars, cbVars>>

StopAcquireNoLock ==
    /\ m_pc = "stop_lock"
    /\ m_pc' = "stop_ram"
    /\ UNCHANGED <<lock, ret, main_ops, stops, magVars, streamVars, cbVars>>

\* line 313: with self._lock
StopAcquire ==
    /\ m_pc = "stop_lock"
    /\ lock = "free"
    /\ lock' = "main"
    /\ m_pc' = "stop_ram"
    /\ UNCHANGED <<ret, main_ops, stops, magVars, streamVars, cbVars>>

\* line 314
StopWriteRam ==
    /\ m_pc = "stop_ram"
    /\ ram_magnitude' = <<0, 1>>
    /\ writes' = Bump(writes, "ram")
    /\ m_pc' = "stop_swap"
    /\ UNCHANGED <<swap_magnitude, disk_magnitude, cpu_magnitudes, heap>>
    /\ UNCHANGED <<ret, main_ops, stops, lock, streamVars, cbVars>>

\* line 315
StopWriteSwap ==
    /\ m_pc = "stop_swap"
    /\ swap_magnitude' = <<0, 1>>
    /\ writes' = Bump(writes, "swap")
    /\ m_pc' = "stop_disk"
    /\ UNCHANGED <<ram_magnitude, disk_magnitude, cpu_magnitudes, heap>>
    /\ UNCHANGED <<ret, main_ops, stops, lock, streamVars, cbVars>>

\* line 316
StopWriteDisk ==
    /\ m_pc = "stop_disk"
    /\ disk_magnitude' = <<0, 1>>
    /\ writes' = Bump(writes, "disk")
    /\ m_pc' = "stop_cpu"
    /\ UNCHANGED <<ram_magnitude, swap_magnitude, cpu_magnitudes, heap>>
    /\ UNCHANGED <<ret, main_ops, stops, lock, streamVars, cbVars>>

\* line 317: a new list [0.0] * num_cpu_cores replaces the old one
StopWriteCpu ==
    /\ m_pc = "stop_cpu"
    /\ LET new == FreshRef(heap)
       IN  /\ cpu_magnitudes' = new
           /\ heap' = Collect([id \in DOMAIN heap \cup {new} |->
                                  IF id = new THEN ZeroList ELSE heap[id]],
                              Live(new, ret))
    /\ writes' = [writes EXCEPT !.cpu = [i \in 1..NumCores |-> @[i] + 1]]
    /\ m_pc' = "stop_unlock"
    /\ UNCHANGED <<ram_magnitude, swap_magnitude, disk_magnitude>>
    /\ UNCHANGED <<ret, main_ops, stops, lock, streamVars, cbVars>>

\* the end of the with block; stop returns
StopRelease ==
    /\ m_pc = "stop_unlock"
    /\ lock' = "free"
    /\ m_pc' = "idle"
    /\ stops' = stops + 1
    /\ UNCHANGED <<ret, main_ops, magVars, streamVars, cbVars>>

-----------------------------------------------------------------------------
(* modules/audio_vis.py: _find_loopback_device.  A device is what          *)
(* sd.query_devices() reports of it; names are lower case as the code      *)
(* compares them.                                                           *)

MaxDevices == 2

\* the substrings the code looks for, and which of them each name contains
Substrings ==
    [n \in {"voicemeeter out b1 (vb-audio voicemeeter vaio)",
            "voicemeeter out b2 (vb-audio voicemeeter vaio)",
            "voicemeeter out a1 (vb-audio voicemeeter vaio)",
            "voicemeeter aux input (vb-audio voicemeeter aux vaio)",
            "stereo mix (realtek audio)",
            "cable output (vb-audio virtual cable)",
            "microphone (realtek audio)",
            "speakers (realtek audio)",
            "windows wasapi", "windows wdm-ks", "windows directsound", "mme"} |->
        CASE n = "voicemeeter out b1 (vb-audio voicemeeter vaio)" ->
                 {"voicemeeter", "out", "out b", "out b1"}
          [] n = "voicemeeter out b2 (vb-audio voicemeeter vaio)" ->
                 {"voicemeeter", "out", "out b", "out b2"}
          [] n = "voicemeeter out a1 (vb-audio voicemeeter vaio)" ->
                 {"voicemeeter", "out", "out a"}
          [] n = "voicemeeter aux input (vb-audio voicemeeter aux vaio)" ->
                 {"voicemeeter", "aux", "input"}
          [] n = "stereo mix (realtek audio)" -> {"stereo mix"}
          [] n = "cable output (vb-audio virtual cable)" -> {"out"}
          [] n = "windows wasapi" -> {"wasapi"}
          [] n = "windows wdm-ks" -> {"wdm"}
          [] n = "windows directsound" -> {"directsound"}
          [] OTHER -> {}]

\* sub in s
In(sub, s) == sub \in Substrings[s]

Device(name, api, channels, rate) ==
    [name |-> name, hostapi |-> api, max_input_channels |-> channels,
     default_samplerate |-> rate]

\* the endpoints a machine may report
Endpoints ==
    {Device("voicemeeter out b1 (vb-audio voicemeeter vaio)", "windows wasapi", 2, 48000),
     Device("voicemeeter out b2 (vb-audio voicemeeter vaio)", "windows wasapi", 2, 48000),
     Device("voicemeeter out a1 (vb-audio voicemeeter vaio)", "windows wasapi", 2, 48000),
     Device("voicemeeter aux input (vb-audio voicemeeter aux vaio)", "windows wasapi", 2, 44100),
     Device("stereo mix (realtek audio)", "windows wasapi", 2, 44100),
     Device("stereo mix (realtek audio)", "windows wdm-ks", 2, 44100),
     Device("cable output (vb-audio virtual cable)", "windows wasapi", 2, 96000),
     Device("microphone (realtek audio)", "windows wasapi", 1, 8000),
     Device("microphone (realtek audio)", "mme", 1, 44100),
     Device("speakers (realtek audio)", "windows wasapi", 0, 48000)}

\* sd.query_devices(): every list of up to MaxDevices endpoints
DeviceLists ==
    UNION {[1..n -> Endpoints] : n \in 0..MaxDevices}

\* not a candidate
NoScore == <<>>

\* lines 165-170: the endpoint is not a WASAPI one
WdmScore(name, api) ==
    IF (In("wdm", api) \/ In("directsound", api))
       /\ (In("voicemeeter", name) \/ In("stereo mix", name))
    THEN <<100>>
    ELSE NoScore

\* lines 198-199: any other WASAPI input
OtherScore == <<50>>

BusScoreB1Last(name) ==
    IF In("out b1", name) THEN <<6>>
    ELSE IF In("out b2", name) THEN <<1>>
    ELSE NoScore

\* lines 174-183: the Voicemeeter output buses
BusScore(name) ==
    IF In("out b1", name)
       \/ (~In("out b", name) /\ ~In("out a", name) /\ ~In("aux", name) /\ ~In("vaio3", name))
    THEN <<0>>
    ELSE IF In("out b2", name) THEN <<1>>
    ELSE IF In("out b3", name) THEN <<2>>
    ELSE NoScore

\* lines 158-199: the priority of one endpoint, lower is better
Score(dev) ==
    LET name == dev.name
        api  == dev.hostapi
    IN  IF dev.max_input_channels <= 0 THEN NoScore
        ELSE IF ~In("wasapi", api) THEN WdmScore(name, api)
        ELSE IF In("voicemeeter", name) /\ In("out", name) THEN BusScore(name)
        ELSE IF In("voicemeeter", name) /\ (In("input", name) \/ In("aux", name))
             THEN (IF In("aux", name) THEN <<3>> ELSE <<4>>)
        ELSE IF In("loopback", name) \/ In("stereo mix", name) \/ In("what u hear", name)
             THEN <<5>>
        ELSE OtherScore

\* lines 155-199: the positions of the candidates, counted from 1
Candidates(devs) == {i \in DOMAIN devs : Score(devs[i]) # NoScore}

NoDevice == <<>>

\* lines 201-207: the stable sort by score puts first the earliest of the
\* candidates with the lowest score; the index returned counts from 0
FindLoopbackDevice(devs) ==
    IF Candidates(devs) = {} THEN NoDevice
    ELSE LET best == CHOOSE i \in Candidates(devs) :
                        \A j \in Candidates(devs) :
                            \/ Score(devs[i])[1] < Score(devs[j])[1]
                            \/ (Score(devs[i])[1] = Score(devs[j])[1] /\ i <= j)
         IN  <<best - 1>>

-----------------------------------------------------------------------------
(* modules/audio_vis.py: start(), one configuration attempt per step       *)

\* sample_rates_to_try = [48000, 44100, 96000]
CommonRates == <<48000, 44100, 96000>>

\* s without its elements equal to x
Without(s, x) == SelectSeq(s, LAMBDA r : r # x)

RatesDefaultAdded(default_rate) == <<default_rate>> \o CommonRates

\* lines 227-233: the default rate goes to the front, once
RatesWithDefault(default_rate) == <<default_rate>> \o Without(CommonRates, default_rate)

Config(device, rate, channels, extra) ==
    [device |-> device, samplerate |-> rate, channels |-> channels, extra_settings |-> extra]

\* lines 242-265: the three configurations of one rate on the chosen device
DeviceConfigs(device, rate, extra) ==
    <<Config(device, rate, 2, extra),
      Config(device, rate, 2, None),
      Config(device, rate, 1, None)>>

RECURSIVE Flatten(_)
Flatten(ss) == IF ss = <<>> THEN <<>> ELSE Head(ss) \o Flatten(Tail(ss))

\* lines 238-275: configs_to_try
ConfigsToTry(device, rates, extra) ==
    (IF device # NoDevice
     THEN Flatten([k \in DOMAIN rates |-> DeviceConfigs(device, rates[k], extra)])
     ELSE <<>>)
    \o [k \in DOMAIN rates |-> Config(NoDevice, rates[k], 1, None)]

\* how one attempt ends: the stream opens and starts, InputStream raises,
\* or the stream opens and its start raises
AttemptOutcomes == {"ok", "open_raises", "start_raises"}

AttemptRunningEarly(outcome, cfg) ==
    CASE outcome = "ok" ->
             [running |-> TRUE, stream |-> "active", sample_rate |-> cfg.samplerate]
      [] outcome = "start_raises" ->
             [running |-> TRUE, stream |-> "unstarted", sample_rate |-> sample_rate]
      [] OTHER ->
             [running |-> running, stream |-> stream, sample_rate |-> sample_rate]

\* lines 279-290: what one attempt leaves in _running, _stream, sample_rate
AttemptEffect(outcome, cfg) ==
    CASE outcome = "ok" ->
             [running |-> TRUE, stream |-> "active", sample_rate |-> cfg.samplerate]
      [] outcome = "start_raises" ->
             [running |-> running, stream |-> "unstarted", sample_rate |-> sample_rate]
      [] OTHER ->
             [running |-> running, stream |-> stream, sample_rate |-> sample_rate]

\* lines 281-284: "self._stream = sd.InputStream(...)" replaces the
\* reference to a stream an earlier turn created; nothing closed that one
Dropped(outcome) ==
    IF outcome # "open_raises" /\ stream = "unstarted" THEN dropped + 1 ELSE dropped

StartInit ==
    /\ devices = <<>>
    /\ device_id = NoDevice
    /\ st_pc = "call"
    /\ sample_rates_to_try = CommonRates
    /\ configs_to_try = <<>>
    /\ cfg_i = 1
    /\ attempts = <<>>
    /\ start_ret = None
    /\ dropped = 0

startRest == <<lock, magVars, cbVars, mainVars>>

\* lines 214-217: start() on a visualizer not running; the device list is
\* queried and a device chosen, or sd.query_devices() raises and there is
\* neither list nor device
SelectDevice ==
    /\ st_pc = "call"
    /\ ~running
    /\ \/ \E devs \in DeviceLists :
             /\ devices' = devs
             /\ device_id' = FindLoopbackDevice(devs)
       \/ /\ devices' = <<>>
          /\ device_id' = NoDevice
    /\ st_pc' = "rates"
    /\ UNCHANGED <<sample_rates_to_try, configs_to_try, cfg_i, attempts, start_ret, dropped>>
    /\ UNCHANGED <<streamVars, startRest>>

\* lines 221-275: the rates, with the device's default rate first unless
\* its query raises, and the configurations
BuildConfigs ==
    /\ st_pc = "rates"
    /\ \E rates \in {CommonRates} \cup
                    (IF device_id # NoDevice
                     THEN {RatesWithDefault(devices[device_id[1] + 1].default_samplerate)}
                     ELSE {}) :
       \E extra \in {"wasapi", None} :
          /\ device_id = NoDevice => rates = CommonRates
          /\ sample_rates_to_try' = rates
          /\ configs_to_try' = ConfigsToTry(device_id, rates, extra)
    /\ cfg_i' = 1
    /\ st_pc' = "attempt"
    /\ UNCHANGED <<devices, device_id, attempts, start_ret, dropped>>
    /\ UNCHANGED <<streamVars, startRest>>

\* lines 277-290: one turn of the loop over configs_to_try
Attempt ==
    /\ st_pc = "attempt"
    /\ cfg_i <= Len(configs_to_try)
    /\ \E outcome \in AttemptOutcomes :
          LET after == AttemptEffect(outcome, configs_to_try[cfg_i])
          IN  /\ attempts' = Append(attempts, [at |-> cfg_i, cfg |-> configs_to_try[cfg_i],
                                               ok |-> outcome = "ok"])
              /\ running' = after.running
              /\ stream' = after.stream
              /\ sample_rate' = after.sample_rate
              /\ stream_active' = (outcome = "ok")
              /\ dropped' = Dropped(outcome)
              /\ IF outcome = "ok"
                 THEN start_ret' = "True" /\ st_pc' = "done" /\ cfg_i' = cfg_i
                 ELSE start_ret' = start_ret /\ st_pc' = st_pc /\ cfg_i' = cfg_i + 1
    /\ UNCHANGED <<devices, device_id, sample_rates_to_try, configs_to_try>>
    /\ UNCHANGED startRest

\* input.py lines 75-85: start() returned False and handle_party_command
\* sets state.party_visualizer = None; the visualizer and what its _stream
\* holds are referenced by nothing any more
DiscardVisualizer ==
    /\ st_pc = "done"
    /\ start_ret = "False"
    /\ st_pc' = "discarded"
    /\ stream' = None
    /\ dropped' = IF stream = "unstarted" THEN dropped + 1 ELSE dropped
    /\ UNCHANGED <<devices, device_id, sample_rates_to_try, configs_to_try, cfg_i, attempts,
                   start_ret>>
    /\ UNCHANGED <<running, stream_active, sample_rate, startRest>>

\* line 292
ReturnFalse ==
    /\ st_pc = "attempt"
    /\ cfg_i > Len(configs_to_try)
    /\ start_ret' = "False"
    /\ st_pc' = "done"
    /\ UNCHANGED <<devices, device_id, sample_rates_to_try, configs_to_try, cfg_i, attempts,
                   dropped>>
    /\ UNCHANGED <<streamVars, startRest>>

-----------------------------------------------------------------------------
(* modules/processsn.py: get_native_process_snapshot, and                  *)
(* modules/processes.py: get_processes, one cycle per slow tick of the     *)
(* main loop.  A 32-bit status and a Python integer are both written       *)
(* <<v \div 65536, v % 65536>>, so that values above 2^31 can be told      *)
(* from their signed readings.                                              *)

MaxTicks == 3

\* buf_size = 1_000_000
InitialBufSize == 1000000

\* STATUS_INFO_LENGTH_MISMATCH = 0xC0000004, the Python integer
STATUS_INFO_LENGTH_MISMATCH == <<49152, 4>>

\* the 32 bits NtQuerySystemInformation may return: success, buffer too
\* small (0xC0000004), access denied (0xC0000022), and a status that is
\* neither success nor an error (0x00000103)
KernelStatuses == {<<0, 0>>, <<49152, 4>>, <<49152, 34>>, <<0, 259>>}

\* the call has no restype, so ctypes reads the 32 bits as a C int
AsCInt(bits) == IF bits[1] >= 32768 THEN <<bits[1] - 65536, bits[2]>> ELSE bits

\* the process table is never empty
KernelSnapshots == Snapshots \ {<<>>}

\* psutil.cpu_count() or 1
NumCpus == {1, 4}

\* now - state.prev_proc_time, in microseconds
TickIntervals == {1000, 1000000}

\* lines 44-72: the display entry of a record; the idle process is left out
DisplayList(proc_list) ==
    LET kept == SelectSeq(proc_list, LAMBDA p : p.pid # 0)
    IN  [k \in DOMAIN kept |-> [pid |-> kept[k].pid, cpu_percent |-> kept[k].cpu_percent]]

RECURSIVE SortedDesc(_)
\* lines 75-79: sorted(procs, key = cpu_percent, reverse = True), stable
SortedDesc(procs) ==
    IF procs = <<>> THEN <<>>
    ELSE LET rest == SortedDesc(SubSeq(procs, 1, Len(procs) - 1))
             x    == procs[Len(procs)]
             before == SelectSeq(rest, LAMBDA p : ~RatLt(p.cpu_percent, x.cpu_percent))
             after  == SelectSeq(rest, LAMBDA p : RatLt(p.cpu_percent, x.cpu_percent))
         IN  before \o <<x>> \o after

SnapInit ==
    /\ gp_pc = "idle"
    /\ buf_size = InitialBufSize
    /\ kernel_status = <<0, 0>>
    /\ too_small = 0
    /\ processes = <<>>
    /\ ticks = 0
    /\ gp_failed = FALSE

cpuRest == <<call_cache, cpu_phase, evicted_pids>>

\* task_manager.py line 99 and processes.py lines 9-18: the slow update is
\* due and get_processes is called
GetProcessesCall ==
    /\ gp_pc = "idle"
    /\ ticks < MaxTicks
    /\ ticks' = ticks + 1
    /\ \E n \in NumCpus : cpu_count' = n
    /\ \E us \in TickIntervals : interval_us' = us
    /\ buf_size' = InitialBufSize
    /\ too_small' = 0
    /\ gp_pc' = "query"
    /\ UNCHANGED <<kernel_status, processes, gp_failed>>
    /\ UNCHANGED <<proc_cpu_cache, curr_snapshot, results, cpuRest>>

\* processsn.py lines 98-148: one query of the kernel and what follows it
Query ==
    /\ gp_pc = "query"
    /\ \E bits \in KernelStatuses :
          LET status == AsCInt(bits)
          IN  /\ kernel_status' = bits
              /\ too_small' = IF bits = <<49152, 4>> THEN too_small + 1 ELSE too_small
              /\ IF status = STATUS_INFO_LENGTH_MISMATCH
                 THEN /\ buf_size' = buf_size * 2
                      /\ gp_pc' = "query"
                      /\ UNCHANGED curr_snapshot
                 ELSE IF status # <<0, 0>>
                 THEN /\ gp_pc' = "raised"
                      /\ UNCHANGED <<buf_size, curr_snapshot>>
                 ELSE /\ gp_pc' = "snapshot"
                      /\ \E snap \in KernelSnapshots : curr_snapshot' = snap
                      /\ UNCHANGED buf_size
    /\ UNCHANGED <<processes, ticks, gp_failed>>
    /\ UNCHANGED <<proc_cpu_cache, interval_us, cpu_count, results, cpuRest>>

FailureEscapes ==
    /\ gp_pc = "raised"
    /\ gp_pc' = "crashed"
    /\ gp_failed' = TRUE
    /\ UNCHANGED <<buf_size, kernel_status, too_small, processes, ticks>>
    /\ UNCHANGED <<proc_cpu_cache, curr_snapshot, interval_us, cpu_count, results, cpuRest>>

\* processes.py lines 23-28: the exception is caught and the cycle given up
AbsorbFailure ==
    /\ gp_pc = "raised"
    /\ gp_pc' = "idle"
    /\ gp_failed' = TRUE
    /\ UNCHANGED <<buf_size, kernel_status, too_small, processes, ticks>>
    /\ UNCHANGED <<proc_cpu_cache, curr_snapshot, interval_us, cpu_count, results, cpuRest>>

\* processes.py lines 30-81: the deltas, the display list and its sort
FinishCycle ==
    /\ gp_pc = "snapshot"
    /\ LET out == ComputeCpuDeltas(proc_cpu_cache, curr_snapshot, interval_us, cpu_count)
       IN  /\ proc_cpu_cache' = out.cache
           /\ results' = out.results
           /\ processes' = SortedDesc(DisplayList(out.results))
    /\ gp_pc' = "idle"
    /\ gp_failed' = FALSE
    /\ UNCHANGED <<buf_size, kernel_status, too_small, ticks>>
    /\ UNCHANGED <<curr_snapshot, interval_us, cpu_count, cpuRest>>

-----------------------------------------------------------------------------
(* Python floats (IEEE 754 binary64) for _smooth, bit for bit.  A natural   *)
(* number of any size is a sequence of limbs, lowest first, without leading *)
(* zero limbs (<<>> is 0).  A double is [m, e] standing for m * 2^e, with m *)
(* of exactly 53 bits, or zero.                                             *)

LimbBits == 13

LimbBase == 2 ^ LimbBits

MantissaBits == 53

Limb(a, i) == IF i <= Len(a) THEN a[i] ELSE 0

RECURSIVE BigTrim(_)
BigTrim(a) ==
    IF a # <<>> /\ a[Len(a)] = 0 THEN BigTrim(SubSeq(a, 1, Len(a) - 1)) ELSE a

RECURSIVE BigAddFrom(_, _, _, _)
BigAddFrom(a, b, i, carry) ==
    IF i > Max(Len(a), Len(b))
    THEN (IF carry = 0 THEN <<>> ELSE <<carry>>)
    ELSE LET s == Limb(a, i) + Limb(b, i) + carry
         IN  <<s % LimbBase>> \o BigAddFrom(a, b, i + 1, s \div LimbBase)

BigAdd(a, b) == BigAddFrom(a, b, 1, 0)

RECURSIVE BigSubFrom(_, _, _, _)
BigSubFrom(a, b, i, borrow) ==
    IF i > Len(a) THEN <<>>
    ELSE LET d == Limb(a, i) - Limb(b, i) - borrow
         IN  <<IF d < 0 THEN d + LimbBase ELSE d>>
             \o BigSubFrom(a, b, i + 1, IF d < 0 THEN 1 ELSE 0)

\* a - b, for a >= b
BigSub(a, b) == BigTrim(BigSubFrom(a, b, 1, 0))

RECURSIVE BigScaleFrom(_, _, _, _)
BigScaleFrom(a, k, i, carry) ==
    IF i > Len(a)
    THEN (IF carry = 0 THEN <<>> ELSE <<carry>>)
    ELSE LET p == a[i] * k + carry
         IN  <<p % LimbBase>> \o BigScaleFrom(a, k, i + 1, p \div LimbBase)

\* a * k, for a small k (0 <= k <= LimbBase)
BigScale(a, k) == IF k = 0 THEN <<>> ELSE BigScaleFrom(a, k, 1, 0)

\* a * LimbBase^n
BigShiftLimbs(a, n) == IF a = <<>> THEN <<>> ELSE [i \in 1..n |-> 0] \o a

RECURSIVE BigMulFrom(_, _, _)
BigMulFrom(a, b, i) ==
    IF i > Len(b) THEN <<>>
    ELSE BigAdd(BigShiftLimbs(BigScale(a, b[i]), i - 1), BigMulFrom(a, b, i + 1))

BigMul(a, b) == BigMulFrom(a, b, 1)

RECURSIVE BigLessFrom(_, _, _)
BigLessFrom(a, b, i) ==
    IF i = 0 THEN FALSE
    ELSE IF a[i] # b[i] THEN a[i] < b[i]
    ELSE BigLessFrom(a, b, i - 1)

\* a < b
BigLess(a, b) ==
    IF Len(a) # Len(b) THEN Len(a) < Len(b) ELSE BigLessFrom(a, b, Len(a))

RECURSIVE SmallBitLen(_)
SmallBitLen(n) == IF n = 0 THEN 0 ELSE 1 + SmallBitLen(n \div 2)

BitLen(a) == IF a = <<>> THEN 0 ELSE LimbBits * (Len(a) - 1) + SmallBitLen(a[Len(a)])

\* a * 2^k
BigShl(a, k) == BigShiftLimbs(BigScale(a, 2 ^ (k % LimbBits)), k \div LimbBits)

RECURSIVE BigDivFrom(_, _, _, _)
BigDivFrom(a, d, i, rem) ==
    IF i = 0 THEN <<>>
    ELSE LET cur == rem * LimbBase + a[i]
         IN  BigDivFrom(a, d, i - 1, cur % d) \o <<cur \div d>>

\* floor(a / 2^k)
BigShr(a, k) ==
    LET n    == k \div LimbBits
        high == IF n >= Len(a) THEN <<>> ELSE SubSeq(a, n + 1, Len(a))
    IN  BigTrim(BigDivFrom(high, 2 ^ (k % LimbBits), Len(high), 0))

IsOdd(a) == a # <<>> /\ a[1] % 2 = 1

Zero64 == [m |-> <<>>, e |-> 0]

\* m * 2^e rounded to 53 bits, to nearest, ties to even
Round(m, e) ==
    LET len == BitLen(m)
    IN  IF m = <<>> THEN Zero64
        ELSE IF len <= MantissaBits
        THEN [m |-> BigShl(m, MantissaBits - len), e |-> e - (MantissaBits - len)]
        ELSE LET k    == len - MantissaBits
                 q    == BigShr(m, k)
                 r    == BigSub(m, BigShl(q, k))
                 half == BigShl(<<1>>, k - 1)
                 up   == BigLess(half, r) \/ (r = half /\ IsOdd(q))
                 q1   == IF up THEN BigAdd(q, <<1>>) ELSE q
             IN  IF BitLen(q1) > MantissaBits
                 THEN [m |-> BigShr(q1, 1), e |-> e + k + 1]
                 ELSE [m |-> q1, e |-> e + k]

\* the exact sum and difference of two values m * 2^e
DyAdd(x, y) ==
    LET e == Min(x.e, y.e)
    IN  [m |-> BigAdd(BigShl(x.m, x.e - e), BigShl(y.m, y.e - e)), e |-> e]

DyLess(x, y) ==
    LET e == Min(x.e, y.e)
    IN  BigLess(BigShl(x.m, x.e - e), BigShl(y.m, y.e - e))

DyEq(x, y) == ~DyLess(x, y) /\ ~DyLess(y, x)

DyLeq(x, y) == ~DyLess(y, x)

\* |x - y|
DyDist(x, y) ==
    LET e  == Min(x.e, y.e)
        xm == BigShl(x.m, x.e - e)
        ym == BigShl(y.m, y.e - e)
    IN  [m |-> IF BigLess(xm, ym) THEN BigSub(ym, xm) ELSE BigSub(xm, ym), e |-> e]

DyScale(x, k) == [m |-> BigScale(x.m, k), e |-> x.e]

\* float * float
Mul64(x, y) == Round(BigMul(x.m, y.m), x.e + y.e)

\* float + float
Add64(x, y) == LET s == DyAdd(x, y) IN Round(s.m, s.e)

\* float - float, for x >= y
Sub64(x, y) == LET d == DyDist(x, y) IN Round(d.m, d.e)

RECURSIVE FromHex(_, _)
FromHex(digits, acc) ==
    IF digits = <<>> THEN acc
    ELSE FromHex(Tail(digits), BigAdd(BigScale(acc, 16), IF Head(digits) = 0 THEN <<>> ELSE <<Head(digits)>>))

\* the double that float.hex() writes 0x1.<13 hex digits>p<exp>
Double(digits, exp) == [m |-> FromHex(<<1>> \o digits, <<>>), e |-> exp - 52]

One64 == Double(<<0, 0, 0, 0, 0, 0, 0, 0, 0, 0, 0, 0, 0>>, 0)

\* self._smoothing = 0.3, that is 0x1.3333333333333p-2
Smoothing64 == Double(<<3, 3, 3, 3, 3, 3, 3, 3, 3, 3, 3, 3, 3>>, -2)

SmoothSwapped(old_val, new_val) ==
    Add64(Mul64(old_val, Sub64(One64, Smoothing64)), Mul64(new_val, Smoothing64))

\* _smooth as Python evaluates it
SmoothDouble(old_val, new_val) ==
    Add64(Mul64(old_val, Smoothing64), Mul64(new_val, Sub64(One64, Smoothing64)))

\* magnitudes in [0, 100]: 0.0, 0.1, 1.3, 3.0, 33.3, 50.0 and 100.0
SmoothValues ==
    {Zero64,
     Double(<<9, 9, 9, 9, 9, 9, 9, 9, 9, 9, 9, 9, 10>>, -4),
     Double(<<4, 12, 12, 12, 12, 12, 12, 12, 12, 12, 12, 12, 13>>, 0),
     Double(<<8, 0, 0, 0, 0, 0, 0, 0, 0, 0, 0, 0, 0>>, 1),
     Double(<<0, 10, 6, 6, 6, 6, 6, 6, 6, 6, 6, 6, 6>>, 5),
     Double(<<9, 0, 0, 0, 0, 0, 0, 0, 0, 0, 0, 0, 0>>, 5),
     Double(<<9, 0, 0, 0, 0, 0, 0, 0, 0, 0, 0, 0, 0>>, 6)}

MaxSmoothSteps == 4

SmoothInit ==
    /\ sm_pc = "pick"
    /\ sm_val = Zero64
    /\ sm_target = Zero64
    /\ sm_prev = Zero64
    /\ sm_steps = 0

\* a magnitude and the band value it is smoothed toward
SmoothPick ==
    /\ sm_pc = "pick"
    /\ sm_pc' = "smooth"
    /\ \E old_val \in SmoothValues, target \in SmoothValues :
          /\ sm_val' = old_val
          /\ sm_prev' = old_val
          /\ sm_target' = target
    /\ UNCHANGED sm_steps

\* self._x = self._smooth(self._x, target), callback after callback
SmoothStep ==
    /\ sm_pc = "smooth"
    /\ sm_steps < MaxSmoothSteps
    /\ sm_steps' = sm_steps + 1
    /\ sm_prev' = sm_val
    /\ sm_val' = SmoothDouble(sm_val, sm_target)
    /\ UNCHANGED <<sm_pc, sm_target>>

-----------------------------------------------------------------------------
(* modules/input.py: handle_input reading the console input buffer.  A key *)
(* is kept with its age, the number of main loop iterations that ended     *)
(* since it was pressed, and with the number of confirmation answers read  *)
(* ahead of it since then.  The text typed into input_buffer is not kept:  *)
(* Enter executes whatever command line it may hold.                       *)

\* the keys pressed: Enter and 'y', which is an answer while a confirmation
\* is pending and a character of the command line otherwise
Keys == {"\r", "y"}

MaxKeys == 2

\* lines 263 and 267: the keys that answer a pending confirmation
AnswerKeys == {"y", "n", "Esc"}

ReturnsAfterAnyKey(pending, ch) == TRUE

\* lines 262-271: handle_input returns right after the answer to a pending
\* confirmation; after every other key the loop goes on
ReturnsAfter(pending, ch) == pending /\ ch \in AnswerKeys

\* the keys left in the buffer when an iteration of the main loop ends
Aged(keys) == [k \in DOMAIN keys |-> [keys[k] EXCEPT !.age = @ + 1]]

\* the keys left in the buffer when a confirmation answer is read
Answered(keys) == [k \in DOMAIN keys |-> [keys[k] EXCEPT !.answers = @ + 1]]

KeysInit ==
    /\ kbd = <<>>
    /\ pending_confirmation = FALSE
    /\ hi_pc = "idle"

\* the user presses a key at some time during an iteration
KeyPress ==
    /\ pc = "input"
    /\ Len(kbd) < MaxKeys
    /\ \E ch \in Keys : kbd' = Append(kbd, [ch |-> ch, age |-> 0, answers |-> 0])
    /\ UNCHANGED <<pending_confirmation, hi_pc, partyVars, loopVars, cpuVars>>

\* task_manager.py, one pass of the loop up to its first handle_input call,
\* with sampling and render calls that take their time
KeysLoopTop ==
    /\ LoopTop
    /\ clock' # clock
    /\ hi_pc' = "reading"
    /\ UNCHANGED <<kbd, pending_confirmation>>

\* lines 259-271 and 297-306: one key read with a confirmation pending, or a
\* key other than Enter read with none pending (it edits input_buffer)
ReadKey ==
    /\ pc = "input"
    /\ hi_pc = "reading"
    /\ kbd # <<>>
    /\ LET ch     == Head(kbd).ch
           answer == pending_confirmation /\ ch \in AnswerKeys
           rest   == IF answer THEN Answered(Tail(kbd)) ELSE Tail(kbd)
       IN  /\ pending_confirmation \/ ch # "\r"
           /\ pending_confirmation' = (pending_confirmation /\ ~answer)
           /\ kbd' = rest
           /\ hi_pc' = IF ReturnsAfter(pending_confirmation, ch) THEN "idle" ELSE "reading"
    /\ UNCHANGED <<partyVars, loopVars, cpuVars>>

\* the rates given to the speed command: one of Normal, one of HighSpeed
KeySpeedArgs == {"slow", "ultrafast"}

\* lines 294-296: Enter with no confirmation pending runs execute_command on
\* a quit, party or speed command; the visualizer starts when asked to
ReadEnterCommand ==
    /\ pc = "input"
    /\ hi_pc = "reading"
    /\ kbd # <<>>
    /\ ~pending_confirmation
    /\ Head(kbd).ch = "\r"
    /\ cmd_count < MaxCmds
    /\ cmd_count' = cmd_count + 1
    /\ \E line \in {"quit", "party", "speed"} :
          CASE line = "party" ->
                  /\ HandlePartyCommand(TRUE, "started")
                  /\ UNCHANGED app_running
            [] line = "speed" ->
                  /\ \E arg \in KeySpeedArgs : SpeedCommand(arg)
                  /\ UNCHANGED app_running
            [] OTHER ->
                  /\ app_running' = FALSE
                  /\ last_cmd' = "quit"
                  /\ UNCHANGED <<current_refresh_rate, party_mode, party_visualizer,
                                 party_prev_refresh_rate, rate_at_entry, speed_in_party,
                                 vis_stops>>
    /\ kbd' = Tail(kbd)
    /\ UNCHANGED <<pending_confirmation, hi_pc, audio_available, loopVars, cpuVars>>

\* what Enter does on any other command line
LineOutcomes == {"nothing", "acted", "asks"}

\* lines 294-296: Enter with no confirmation pending on an empty line, on a
\* command carried out at once, or on a kill, suspend or resume that asks
\* for confirmation first (lines 217 and 226)
ReadEnterOther ==
    /\ pc = "input"
    /\ hi_pc = "reading"
    /\ kbd # <<>>
    /\ ~pending_confirmation
    /\ Head(kbd).ch = "\r"
    /\ \E outcome \in LineOutcomes : pending_confirmation' = (outcome = "asks")
    /\ kbd' = Tail(kbd)
    /\ UNCHANGED <<hi_pc, partyVars, loopVars, cpuVars>>

\* line 259: kbhit() is false, handle_input returns
KbdEmpty ==
    /\ pc = "input"
    /\ hi_pc = "reading"
    /\ kbd = <<>>
    /\ hi_pc' = "idle"
    /\ UNCHANGED <<kbd, pending_confirmation, partyVars, loopVars, cpuVars>>

\* task_manager.py: after handle_input returned, the sleep that ends the
\* iteration, or the sleep and the next handle_input call of the poll loop
KeysInputReturn ==
    /\ hi_pc = "idle"
    /\ InputReturn
    /\ hi_pc' = IF pc' = "input" THEN "reading" ELSE "idle"
    /\ kbd' = IF pc' = "top" THEN Aged(kbd) ELSE kbd
    /\ UNCHANGED pending_confirmation

\* task_manager.py: the loop ends
KeysLoopExit ==
    /\ LoopExit
    /\ UNCHANGED keyVars

-----------------------------------------------------------------------------
(* modules/processsn.py: get_native_process_snapshot walking the buffer    *)
(* the kernel filled.  Offsets count units of eight bytes; an entry is     *)
(* kept with the three fields the walk depends on or turns into something  *)
(* else, the other fields are copied as they are.                           *)

MaxEntries == 3

\* the room an entry takes, its thread array and its name included
EntrySizes == {1, 2}

\* UniqueProcessId: the idle process has 0
Handles == {0, 4}

\* ImageName.Buffer: a null pointer for the idle process
ImageNames == {None, "a.exe"}

EntryShapes == [size : EntrySizes, UniqueProcessId : Handles, ImageName : ImageNames]

\* ctypes.create_string_buffer(buf_size): every byte is zero
ZeroEntry == [NextEntryOffset |-> 0, UniqueProcessId |-> 0, ImageName |-> None]

RECURSIVE OffsetOf(_, _)
\* where the k-th entry of a chain of shapes starts
OffsetOf(shapes, k) == IF k = 1 THEN 0 ELSE OffsetOf(shapes, k - 1) + shapes[k - 1].size

\* the k-th entry as the kernel writes it: the last one has NextEntryOffset 0
KernelEntry(shapes, k) ==
    [NextEntryOffset  |-> IF k = Len(shapes) THEN 0 ELSE shapes[k].size,
     UniqueProcessId  |-> shapes[k].UniqueProcessId,
     ImageName        |-> shapes[k].ImageName]

\* the buffer after NtQuerySystemInformation succeeded
Filled(shapes) ==
    [o \in 0 .. (MaxEntries * 2 - 1) |->
        IF \E k \in DOMAIN shapes : OffsetOf(shapes, k) = o
        THEN KernelEntry(shapes, CHOOSE k \in DOMAIN shapes : OffsetOf(shapes, k) = o)
        ELSE ZeroEntry]

\* ctypes.cast(handle, c_void_p).value: None for a null pointer
VoidPValue(handle) == IF handle = 0 THEN <<>> ELSE <<handle>>

\* "value or 0"
OrZero(value) == IF value = <<>> THEN 0 ELSE value[1]

\* lines 128-141: the record appended for an entry
Record(entry) ==
    [pid  |-> OrZero(VoidPValue(entry.UniqueProcessId)),
     name |-> IF entry.ImageName # None THEN entry.ImageName ELSE "System"]

AdvanceAbsolute(offset, entry) == entry.NextEntryOffset

\* line 146: offset += entry.NextEntryOffset
Advance(offset, entry) == offset + entry.NextEntryOffset

WalkInit ==
    /\ wk_pc = "query"
    /\ wk_buf = <<>>
    /\ wk_chain = <<>>
    /\ wk_offset = 0
    /\ wk_results = <<>>

\* lines 99-120: the kernel call succeeds and leaves a chain of entries
KernelFill ==
    /\ wk_pc = "query"
    /\ \E n \in 1 .. MaxEntries : \E shapes \in [1 .. n -> EntryShapes] :
          /\ wk_buf' = Filled(shapes)
          /\ wk_chain' = [k \in 1 .. n |-> KernelEntry(shapes, k)]
    /\ wk_results' = <<>>
    /\ wk_offset' = 0
    /\ wk_pc' = "walk"

\* lines 122-146: one pass of "while True:"
WalkStep ==
    /\ wk_pc = "walk"
    /\ LET entry == wk_buf[wk_offset]
       IN  /\ wk_results' = Append(wk_results, Record(entry))
           /\ IF entry.NextEntryOffset = 0
              THEN wk_pc' = "done" /\ UNCHANGED wk_offset
              ELSE wk_pc' = "walk" /\ wk_offset' = Advance(wk_offset, entry)
    /\ UNCHANGED <<wk_buf, wk_chain>>

-----------------------------------------------------------------------------
(* modules/audio_vis.py: the loop of start() statement by statement, with   *)
(* the capture thread calling _audio_callback as soon as a stream runs.     *)

MaxRateCallbacks == 2

RateInit ==
    /\ stream_rate = <<>>
    /\ cb_rate = <<>>
    /\ rate_cbs = 0

FailedAttempt == [at |-> cfg_i, cfg |-> configs_to_try[cfg_i], ok |-> FALSE]

\* lines 279-284: sd.InputStream(...) raises, or the stream it returns is
\* assigned to self._stream
OpenStream ==
    /\ st_pc = "attempt"
    /\ cfg_i <= Len(configs_to_try)
    /\ \/ /\ attempts' = Append(attempts, FailedAttempt)
          /\ cfg_i' = cfg_i + 1
          /\ UNCHANGED <<st_pc, stream, stream_rate, dropped>>
       \/ /\ stream' = "unstarted"
          /\ stream_rate' = <<configs_to_try[cfg_i].samplerate>>
          /\ dropped' = Dropped("opened")
          /\ st_pc' = "start"
          /\ UNCHANGED <<attempts, cfg_i>>
    /\ UNCHANGED <<devices, device_id, sample_rates_to_try, configs_to_try, start_ret>>
    /\ UNCHANGED <<running, stream_active, sample_rate, cb_rate, rate_cbs, startRest>>

\* line 285: self._stream.start() raises, or the stream runs from here on
StartStream ==
    /\ st_pc = "start"
    /\ \/ /\ attempts' = Append(attempts, FailedAttempt)
          /\ cfg_i' = cfg_i + 1
          /\ st_pc' = "attempt"
          /\ UNCHANGED <<stream, stream_active>>
       \/ /\ stream' = "active"
          /\ stream_active' = TRUE
          /\ st_pc' = "set_running"
          /\ UNCHANGED <<attempts, cfg_i>>
    /\ UNCHANGED <<devices, device_id, sample_rates_to_try, configs_to_try, start_ret, dropped>>
    /\ UNCHANGED <<running, sample_rate, rateVars, startRest>>

\* line 286: self._running = True
SetRunning ==
    /\ st_pc = "set_running"
    /\ running' = TRUE
    /\ st_pc' = "set_rate"
    /\ UNCHANGED <<devices, device_id, sample_rates_to_try, configs_to_try, cfg_i, attempts,
                   start_ret, dropped>>
    /\ UNCHANGED <<stream, stream_active, sample_rate, rateVars, startRest>>

\* lines 287-288: self.sample_rate = actual_rate; return True
SetSampleRate ==
    /\ st_pc = "set_rate"
    /\ sample_rate' = configs_to_try[cfg_i].samplerate
    /\ attempts' = Append(attempts, [FailedAttempt EXCEPT !.ok = TRUE])
    /\ start_ret' = "True"
    /\ st_pc' = "done"
    /\ UNCHANGED <<devices, device_id, sample_rates_to_try, configs_to_try, cfg_i, dropped>>
    /\ UNCHANGED <<running, stream, stream_active, rateVars, startRest>>

\* lines 78-80 and 97-124: PortAudio's thread calls _audio_callback with a
\* buffer of the running stream; _freq_to_bin reads self.sample_rate
RateCallback ==
    /\ stream_active
    /\ rate_cbs < MaxRateCallbacks
    /\ rate_cbs' = rate_cbs + 1
    /\ cb_rate' = <<[used |-> sample_rate, delivered |-> stream_rate[1]]>>
    /\ UNCHANGED <<stream_rate, startVars, streamVars, startRest>>

-----------------------------------------------------------------------------
(* modules/input.py: kill, suspend and resume, the confirmation prompt and  *)
(* the keys handle_input reads while it is shown.                           *)

protected ==
    {"system", "registry", "memcompression", "secure system", "csrss.exe", "smss.exe",
     "lsass.exe", "wininit.exe", "services.exe", "winlogon.exe", "svchost.exe", "dwm.exe",
     "fontdrvhost.exe", "logonui.exe"}

warn_protected == {"explorer.exe", "spoolsv.exe", "audiodg.exe"}

\* p.name() of the processes a command can match
ProcNames == {"Svchost.exe", "explorer.exe", "notepad.exe"}

\* what a process does when asked: everything works, p.name() raises, or
\* terminate/suspend/resume raises
Fates == {"ok", "name_raises", "op_raises"}

MaxTargets == 2

TargetLists ==
    UNION {[1 .. n -> [name : ProcNames, fate : Fates]] : n \in 1 .. MaxTargets}

LowerAsIs(s) == s

\* str.lower() on the names and characters used here
Lower(s) ==
    CASE s = "Svchost.exe" -> "svchost.exe"
      [] s = "Y" -> "y"
      [] OTHER -> s

RECURSIVE LoopOver(_, _, _, _)
\* lines 25-49 and 232-251: "for p in targets:", from target k on; st holds
\* success, errors and the calls that succeeded
LoopOver(action, targets, k, st) ==
    IF k > Len(targets) THEN st
    ELSE LET p == targets[k]
             failed == [st EXCEPT !.errors = @ + 1]
         IN  IF p.fate = "name_raises" THEN LoopOver(action, targets, k + 1, failed)
             ELSE IF action = "kill" /\ Lower(p.name) \in protected
             THEN LoopOver(action, targets, k + 1, failed)
             ELSE IF p.fate = "op_raises" THEN LoopOver(action, targets, k + 1, failed)
             ELSE LoopOver(action, targets, k + 1,
                           [st EXCEPT !.success = @ + 1,
                                      !.done = Append(@, [op |-> action, name |-> p.name])])

RunLoop(path, action, targets) ==
    LET st == LoopOver(action, targets, 1, [success |-> 0, errors |-> 0, done |-> <<>>])
    IN  /\ acts' = acts \o st.done
        /\ tally' = <<[path |-> path, action |-> action, targets |-> targets,
                      success |-> st.success, errors |-> st.errors]>>

\* lines 205-214: the targets whose name is on the warn list
WarnTargets(targets) ==
    SelectSeq(targets, LAMBDA p : p.fate # "name_raises" /\ Lower(p.name) \in warn_protected)

\* lines 203-255: kill, suspend or resume with targets found
TargetCommand(cmd, is_pid_lookup, targets) ==
    IF \/ WarnTargets(targets) # <<>> /\ cmd \in {"kill", "suspend"}
       \/ Len(targets) > 1 /\ ~is_pid_lookup
    THEN /\ pending_action' = <<[action |-> cmd, targets |-> targets]>>
         /\ UNCHANGED <<acts, tally>>
    ELSE /\ RunLoop("immediate", cmd, targets)
         /\ UNCHANGED pending_action

\* lines 13-53
ExecutePendingAction ==
    IF pending_action = <<>>
    THEN UNCHANGED <<pending_action, acts, tally>>
    ELSE /\ pending_action' = <<>>
         /\ RunLoop("confirmed", pending_action[1].action, pending_action[1].targets)

\* the keys of the keyboard and what getwch() returns for each, one or two
\* values: "NUL" and "E0" stand for '\x00' and '\xe0', which announce the
\* code of a function or arrow key (Up 'H', Del 'S', Shift+F6 'Y', Alt+F7 'n')
KeyUnits ==
    [y |-> <<"y">>, n |-> <<"n">>, Esc |-> <<"Esc">>, Enter |-> <<"\r">>, k |-> <<"k">>,
     Up |-> <<"E0", "H">>, Del |-> <<"E0", "S">>, ShiftF6 |-> <<"NUL", "Y">>,
     AltF7 |-> <<"NUL", "n">>]

KeyNames == DOMAIN KeyUnits

MaxPresses == 3

MaxBuffer == 1

KillInit ==
    /\ kbq = <<>>
    /\ input_buffer = <<>>
    /\ pending_action = <<>>
    /\ acts = <<>>
    /\ tally = <<>>
    /\ presses = 0

\* the user presses a key; its values wait in the console's queue. The
\* letters y and n are pressed as answers to a prompt, k as text of a line.
KeyPressed ==
    /\ kbq = <<>>
    /\ presses < MaxPresses
    /\ presses' = presses + 1
    /\ \E key \in KeyNames :
          /\ key \in {"y", "n"} => pending_action # <<>>
          /\ (key = "k" /\ pending_action = <<>>) => Len(input_buffer) < MaxBuffer
          /\ kbq' = [i \in DOMAIN KeyUnits[key] |-> [ch |-> KeyUnits[key][i], key |-> key]]
    /\ UNCHANGED <<input_buffer, pending_action, acts, tally>>

DropLast(s) == SubSeq(s, 1, Len(s) - 1)

\* lines 259-306: one turn of "while msvcrt.kbhit():"
HandleKey ==
    /\ kbq # <<>>
    /\ LET ch == kbq[1].ch
       IN  IF pending_action # <<>>
           THEN /\ kbq' = Tail(kbq)
                /\ IF Lower(ch) = "y"
                   THEN ExecutePendingAction /\ input_buffer' = <<>>
                   ELSE IF Lower(ch) = "n" \/ ch = "Esc"
                   THEN /\ pending_action' = <<>>
                        /\ input_buffer' = <<>>
                        /\ UNCHANGED <<acts, tally>>
                   ELSE UNCHANGED <<input_buffer, pending_action, acts, tally>>
           ELSE IF ch \in {"NUL", "E0"}
           THEN /\ UNCHANGED <<pending_action, acts, tally>>
                /\ IF Len(kbq) > 1
                   THEN /\ kbq' = Tail(Tail(kbq))
                        /\ input_buffer' = IF kbq[2].ch = "S" THEN DropLast(input_buffer)
                                           ELSE input_buffer
                   ELSE kbq' = Tail(kbq) /\ UNCHANGED input_buffer
           ELSE IF ch = "\r"
           THEN /\ kbq' = Tail(kbq)
                /\ input_buffer' = <<>>
                /\ \/ UNCHANGED <<pending_action, acts, tally>>
                   \/ /\ input_buffer # <<>>
                      /\ \E cmd \in {"kill", "suspend", "resume"}, is_pid_lookup \in BOOLEAN,
                            targets \in TargetLists :
                            /\ is_pid_lookup => Len(targets) = 1
                            /\ TargetCommand(cmd, is_pid_lookup, targets)
           ELSE /\ kbq' = Tail(kbq)
                /\ input_buffer' = IF ch = "Esc" THEN <<>> ELSE Append(input_buffer, ch)
                /\ UNCHANGED <<pending_action, acts, tally>>
    /\ UNCHANGED presses

-----------------------------------------------------------------------------
(* modules/processes.py: get_processes and the clock. A call is modelled    *)
(* as taking no time, so the cache a call fills was recorded at its "now".  *)

\* the time between two calls of get_processes: a High tick, a slow update,
\* a Normal tick at "slow", a stay in party mode
Gaps == {100000, 500000, 3000000, 20000000}

MaxCycles == 4

FirstInterval == 100000

TimeInit ==
    /\ wall = Epoch
    /\ prev_proc_time = <<>>
    /\ cache_since = <<>>
    /\ gp_now = 0
    /\ gp_interval = 0
    /\ last_call = <<>>
    /\ cycles = 0
    /\ tm_pc = "idle"

\* the main loop sleeps, polls and renders, or runs in party mode, until
\* the next slow update is due
TimePasses ==
    /\ tm_pc = "idle"
    /\ cycles < MaxCycles
    /\ \E gap \in Gaps : wall' = wall + gap
    /\ tm_pc' = "due"
    /\ UNCHANGED <<prev_proc_time, cache_since, gp_now, gp_interval, last_call, cycles>>

\* lines 10-18
GetProcessesEntry ==
    /\ tm_pc = "due"
    /\ gp_now' = wall
    /\ LET prev == IF prev_proc_time = <<>> THEN wall - FirstInterval
                   ELSE prev_proc_time[1]
       IN  gp_interval' = wall - prev
    /\ prev_proc_time' = <<wall>>
    /\ cycles' = cycles + 1
    /\ tm_pc' = "snapshot"
    /\ UNCHANGED <<wall, cache_since, last_call>>

\* lines 21-28: get_native_process_snapshot raises, the cycle is given up
SnapshotFails ==
    /\ tm_pc = "snapshot"
    /\ tm_pc' = "idle"
    /\ UNCHANGED <<wall, prev_proc_time, cache_since, gp_now, gp_interval, last_call, cycles>>

\* lines 30-35: compute_cpu_deltas(state.proc_cpu_cache, snapshot, interval,
\* num_cpus); the cache then holds this cycle's records
DeltasCall ==
    /\ tm_pc = "snapshot"
    /\ last_call' = <<[interval |-> gp_interval,
                      cache_age |-> IF cache_since = <<>> THEN <<>>
                                    ELSE <<gp_now - cache_since[1]>>]>>
    /\ cache_since' = <<gp_now>>
    /\ tm_pc' = "idle"
    /\ UNCHANGED <<wall, prev_proc_time, gp_now, gp_interval, cycles>>

-----------------------------------------------------------------------------
(* Specifications                                                           *)

Init ==
    /\ CpuInit /\ PartyInit /\ LoopInit /\ AudioInit /\ StartInit /\ SnapInit
    /\ SmoothInit /\ KeysInit /\ WalkInit /\ TimeInit /\ RateInit /\ KillInit

CpuNext ==
    \/ TakeSnapshot /\ UNCHANGED <<partyVars, loopVars, audioVars, startVars, snapVars, smoothVars, keyVars, walkVars, lateVars>>
    \/ CpuDeltaCycle /\ UNCHANGED <<partyVars, loopVars, audioVars, startVars, snapVars, smoothVars, keyVars, walkVars, lateVars>>

\* compute_cpu_deltas applied cycle after cycle
InitCpu == Init /\ audio_available

SpecCpu == InitCpu /\ [][CpuNext]_vars

Next ==
    \/ LoopTop /\ UNCHANGED <<audioVars, startVars, snapVars, smoothVars, keyVars, walkVars, lateVars>>
    \/ ExecCommand /\ UNCHANGED <<audioVars, startVars, snapVars, smoothVars, keyVars, walkVars, lateVars>>
    \/ InputReturn /\ UNCHANGED <<audioVars, startVars, snapVars, smoothVars, keyVars, walkVars, lateVars>>
    \/ LoopExit /\ UNCHANGED <<audioVars, startVars, snapVars, smoothVars, keyVars, walkVars, lateVars>>
    \/ LoopAbort /\ UNCHANGED <<audioVars, startVars, snapVars, smoothVars, keyVars, walkVars, lateVars>>
    \/ InterruptedPartyOff /\ UNCHANGED <<audioVars, startVars, snapVars, smoothVars, keyVars, walkVars, lateVars>>

\* the main loop with its input handling
Spec == Init /\ [][Next]_vars

restVars == <<cpuVars, partyVars, loopVars, startVars, snapVars, smoothVars, keyVars, walkVars, lateVars>>

AudioNext ==
    \/ CbCompute /\ UNCHANGED restVars
    \/ CbUnwind /\ UNCHANGED restVars
    \/ CbAcquire /\ UNCHANGED restVars
    \/ CbWriteRam /\ UNCHANGED restVars
    \/ CbWriteSwap /\ UNCHANGED restVars
    \/ CbWriteDisk /\ UNCHANGED restVars
    \/ CbWriteCpu /\ UNCHANGED restVars
    \/ CbRelease /\ UNCHANGED restVars
    \/ Start /\ UNCHANGED restVars
    \/ GmCall /\ UNCHANGED restVars
    \/ GmAcquire /\ UNCHANGED restVars
    \/ GmReadRam /\ UNCHANGED restVars
    \/ GmReadSwap /\ UNCHANGED restVars
    \/ GmReadDisk /\ UNCHANGED restVars
    \/ GmCopyCpu /\ UNCHANGED restVars
    \/ GmRelease /\ UNCHANGED restVars
    \/ StopCall /\ UNCHANGED restVars
    \/ StopStream /\ UNCHANGED restVars
    \/ StopAcquire /\ UNCHANGED restVars
    \/ StopWriteRam /\ UNCHANGED restVars
    \/ StopWriteSwap /\ UNCHANGED restVars
    \/ StopWriteDisk /\ UNCHANGED restVars
    \/ StopWriteCpu /\ UNCHANGED restVars
    \/ StopRelease /\ UNCHANGED restVars

\* one visualizer: the capture thread against start, get_magnitudes and stop
SpecAudio == InitCpu /\ [][AudioNext]_vars

StartNext ==
    \/ SelectDevice /\ UNCHANGED <<cpuVars, partyVars, loopVars, snapVars, smoothVars, keyVars, walkVars, lateVars>>
    \/ BuildConfigs /\ UNCHANGED <<cpuVars, partyVars, loopVars, snapVars, smoothVars, keyVars, walkVars, lateVars>>
    \/ Attempt /\ UNCHANGED <<cpuVars, partyVars, loopVars, snapVars, smoothVars, keyVars, walkVars, lateVars>>
    \/ ReturnFalse /\ UNCHANGED <<cpuVars, partyVars, loopVars, snapVars, smoothVars, keyVars, walkVars, lateVars>>
    \/ DiscardVisualizer /\ UNCHANGED <<cpuVars, partyVars, loopVars, snapVars, smoothVars, keyVars, walkVars, lateVars>>

\* one call of start(), from device selection to its return
SpecStart == InitCpu /\ [][StartNext]_vars

SnapNext ==
    \/ GetProcessesCall /\ UNCHANGED <<partyVars, loopVars, audioVars, startVars, smoothVars, keyVars, walkVars, lateVars>>
    \/ Query /\ UNCHANGED <<partyVars, loopVars, audioVars, startVars, smoothVars, keyVars, walkVars, lateVars>>
    \/ AbsorbFailure /\ UNCHANGED <<partyVars, loopVars, audioVars, startVars, smoothVars, keyVars, walkVars, lateVars>>
    \/ FinishCycle /\ UNCHANGED <<partyVars, loopVars, audioVars, startVars, smoothVars, keyVars, walkVars, lateVars>>

\* get_processes, slow tick after slow tick
SpecSnapshot == InitCpu /\ [][SnapNext]_vars

SmoothNext ==
    \/ SmoothPick /\ UNCHANGED <<cpuVars, partyVars, loopVars, audioVars, startVars, snapVars, keyVars, walkVars, lateVars>>
    \/ SmoothStep /\ UNCHANGED <<cpuVars, partyVars, loopVars, audioVars, startVars, snapVars, keyVars, walkVars, lateVars>>

\* one magnitude smoothed toward one band value, step after step
SpecSmooth == InitCpu /\ [][SmoothNext]_vars

KeysNext ==
    \/ KeyPress /\ UNCHANGED <<audioVars, startVars, snapVars, smoothVars, walkVars, lateVars>>
    \/ KeysLoopTop /\ UNCHANGED <<audioVars, startVars, snapVars, smoothVars, walkVars, lateVars>>
    \/ ReadKey /\ UNCHANGED <<audioVars, startVars, snapVars, smoothVars, walkVars, lateVars>>
    \/ ReadEnterCommand /\ UNCHANGED <<audioVars, startVars, snapVars, smoothVars, walkVars, lateVars>>
    \/ ReadEnterOther /\ UNCHANGED <<audioVars, startVars, snapVars, smoothVars, walkVars, lateVars>>
    \/ KbdEmpty /\ UNCHANGED <<audioVars, startVars, snapVars, smoothVars, walkVars, lateVars>>
    \/ KeysInputReturn /\ UNCHANGED <<audioVars, startVars, snapVars, smoothVars, walkVars, lateVars>>
    \/ KeysLoopExit /\ UNCHANGED <<audioVars, startVars, snapVars, smoothVars, walkVars, lateVars>>

\* the main loop with handle_input reading key by key
SpecKeys == InitCpu /\ [][KeysNext]_vars

WalkNext ==
    \/ KernelFill /\ UNCHANGED <<cpuVars, partyVars, loopVars, audioVars, startVars, snapVars, smoothVars, keyVars, lateVars>>
    \/ WalkStep /\ UNCHANGED <<cpuVars, partyVars, loopVars, audioVars, startVars, snapVars, smoothVars, keyVars, lateVars>>

\* one walk over one buffer; the loop runs in the main thread with nothing
\* to wait for, so it keeps taking steps
SpecWalk == InitCpu /\ [][WalkNext]_vars /\ WF_walkVars(WalkStep)

\* a command line that quits, sets a speed or turns party mode on
QuitOrSwitch ==
    /\ ExecCommand
    /\ last_cmd' \in {"quit", "speed", "party_on"}
    /\ current_refresh_rate' \in {"slow", "ultrafast", "party"}

QuitNext ==
    \/ LoopTop /\ UNCHANGED <<audioVars, startVars, snapVars, smoothVars, keyVars, walkVars, lateVars>>
    \/ QuitOrSwitch /\ UNCHANGED <<audioVars, startVars, snapVars, smoothVars, keyVars, walkVars, lateVars>>
    \/ InputReturn /\ UNCHANGED <<audioVars, startVars, snapVars, smoothVars, keyVars, walkVars, lateVars>>
    \/ LoopExit /\ UNCHANGED <<audioVars, startVars, snapVars, smoothVars, keyVars, walkVars, lateVars>>
    \/ LoopAbort /\ UNCHANGED <<audioVars, startVars, snapVars, smoothVars, keyVars, walkVars, lateVars>>

\* the main loop up to its end: handle_input returns, the sleeps are finite
\* and the while test is made, so these steps are taken when they can be
SpecQuit ==
    /\ InitCpu /\ [][QuitNext]_vars
    /\ WF_vars(InputReturn /\ UNCHANGED <<audioVars, startVars, snapVars, smoothVars, keyVars, walkVars, lateVars>>)
    /\ WF_vars(LoopExit /\ UNCHANGED <<audioVars, startVars, snapVars, smoothVars, keyVars, walkVars, lateVars>>)


KillNext ==
    \/ KeyPressed /\ UNCHANGED <<cpuVars, partyVars, loopVars, audioVars, startVars, snapVars, smoothVars, keyVars, walkVars, timeVars, rateVars>>
    \/ HandleKey /\ UNCHANGED <<cpuVars, partyVars, loopVars, audioVars, startVars, snapVars, smoothVars, keyVars, walkVars, timeVars, rateVars>>

\* the user at the command line: keys, command lines and answers
SpecKill == InitCpu /\ [][KillNext]_vars

RateNext ==
    \/ SelectDevice /\ UNCHANGED <<cpuVars, partyVars, loopVars, snapVars, smoothVars, keyVars, walkVars, lateVars>>
    \/ BuildConfigs /\ UNCHANGED <<cpuVars, partyVars, loopVars, snapVars, smoothVars, keyVars, walkVars, lateVars>>
    \/ OpenStream /\ UNCHANGED <<cpuVars, partyVars, loopVars, snapVars, smoothVars, keyVars, walkVars, timeVars, killVars>>
    \/ StartStream /\ UNCHANGED <<cpuVars, partyVars, loopVars, snapVars, smoothVars, keyVars, walkVars, timeVars, killVars>>
    \/ SetRunning /\ UNCHANGED <<cpuVars, partyVars, loopVars, snapVars, smoothVars, keyVars, walkVars, timeVars, killVars>>
    \/ SetSampleRate /\ UNCHANGED <<cpuVars, partyVars, loopVars, snapVars, smoothVars, keyVars, walkVars, timeVars, killVars>>
    \/ ReturnFalse /\ UNCHANGED <<cpuVars, partyVars, loopVars, snapVars, smoothVars, keyVars, walkVars, lateVars>>
    \/ RateCallback /\ UNCHANGED <<cpuVars, partyVars, loopVars, snapVars, smoothVars, keyVars, walkVars, timeVars, killVars>>

\* one call of start() with the capture thread beside it
SpecRate == InitCpu /\ [][RateNext]_vars

TimeNext ==
    \/ TimePasses /\ UNCHANGED <<cpuVars, partyVars, loopVars, audioVars, startVars, snapVars, smoothVars, keyVars, walkVars, rateVars, killVars>>
    \/ GetProcessesEntry /\ UNCHANGED <<cpuVars, partyVars, loopVars, audioVars, startVars, snapVars, smoothVars, keyVars, walkVars, rateVars, killVars>>
    \/ SnapshotFails /\ UNCHANGED <<cpuVars, partyVars, loopVars, audioVars, startVars, snapVars, smoothVars, keyVars, walkVars, rateVars, killVars>>
    \/ DeltasCall /\ UNCHANGED <<cpuVars, partyVars, loopVars, audioVars, startVars, snapVars, smoothVars, keyVars, walkVars, rateVars, killVars>>

\* get_processes called again and again as time passes
SpecInterval == InitCpu /\ [][TimeNext]_vars

-----------------------------------------------------------------------------
(* Claims about compute_cpu_deltas, checked under SpecCpu.                 *)

Called == cpu_phase = "called"

CachedAt(i) == curr_snapshot[i].pid \in DOMAIN call_cache

\* user ticks plus kernel ticks, as the claims count a total
TotalTicks(rec) == rec.user_time_100ns + rec.kernel_time_100ns

TicksDelta(i) ==
    TotalTicks(curr_snapshot[i]) - TotalTicks(call_cache[curr_snapshot[i].pid])

Zero == <<0, 1>>

Hundred == <<100, 1>>

\* C1: after every call of compute_cpu_deltas the key set of the cache is
\* exactly the set of pids of the snapshot, so a pid of the previous cycle
\* that is absent from this one is no longer cached.
C1_CacheKeysAreSnapshotPids ==
    Called =>
        /\ DOMAIN proc_cpu_cache = SeenPids(curr_snapshot)
        /\ \A p \in DOMAIN call_cache \ SeenPids(curr_snapshot) :
              p \notin DOMAIN proc_cpu_cache

C1_Witness ==
    /\ Called
    /\ curr_snapshot # <<>>
    /\ \E p \in DOMAIN call_cache : p \notin SeenPids(curr_snapshot)
    /\ \E p \in DOMAIN call_cache : p \in SeenPids(curr_snapshot)

\* C2: a record whose pid is not a key of the cache when compute_cpu_deltas
\* is called gets cpu_percent 0 whatever its tick values, also when the pid
\* was cached and evicted in an earlier cycle.
C2_FirstSightIsZero ==
    Called =>
        /\ Len(results) = Len(curr_snapshot)
        /\ \A i \in 1..Len(curr_snapshot) :
              ~CachedAt(i) => results[i].cpu_percent = Zero

C2_Witness ==
    \E i \in 1..Len(curr_snapshot) :
        /\ Called
        /\ ~CachedAt(i)
        /\ curr_snapshot[i].pid \in evicted_pids
        /\ TotalTicks(curr_snapshot[i]) >= 600000
        /\ interval_us < MinIntervalUs
        /\ results[i].cpu_percent = Zero

\* C3: every cpu_percent returned lies in [0,100], for all tick totals (also
\* a current total below the cached one), intervals and cpu counts (also
\* cpu_count <= 0).
C3_CpuPercentInRange ==
    \A i \in 1..Len(results) :
        LET cpu == results[i].cpu_percent
        IN  cpu[2] > 0 /\ 0 <= cpu[1] /\ cpu[1] <= 100 * cpu[2]

\* a delta that implies more than full usage, with cpu_count <= 0, is
\* reported as 100, and a negative delta as 0
C3_Witness ==
    /\ Called
    /\ cpu_count <= 0
    /\ \E i \in 1..Len(curr_snapshot) :
          CachedAt(i) /\ TicksDelta(i) > 500000 /\ results[i].cpu_percent = Hundred
    /\ \E i \in 1..Len(curr_snapshot) :
          CachedAt(i) /\ TicksDelta(i) < 0 /\ results[i].cpu_percent = Zero

\* ((dt / 10^7) / (us / 10^6)) * 100 / n  =  10 * dt / (us * n), capped at 100
ClaimedCpu(dt, us, n) ==
    IF 10 * dt > 100 * us * n THEN Hundred ELSE Rat(10 * dt, us * n)

\* C4: for a cached pid whose total ticks did not decrease, cpu_percent =
\* min(100, ((curr - prev) / 10^7) / max(interval, 0.05) * 100 / cpuCount),
\* for the cpu counts get_processes passes (psutil.cpu_count() or 1, one or
\* more).
C4_DeltaFormula ==
    \A i \in 1..Len(results) :
        (CachedAt(i) /\ TicksDelta(i) >= 0 /\ cpu_count >= 1) =>
            results[i].cpu_percent =
                ClaimedCpu(TicksDelta(i), Max(interval_us, MinIntervalUs), cpu_count)

\* 400 ticks over 1 second on 4 CPUs give 0.001
C4_Witness ==
    /\ Called
    /\ interval_us = 1000000
    /\ cpu_count = 4
    /\ \E i \in 1..Len(curr_snapshot) :
          CachedAt(i) /\ TicksDelta(i) = 400 /\ results[i].cpu_percent = <<1, 1000>>

\* C5: an interval below 0.05 s is treated exactly as 0.05 s: the call
\* returns what the call with interval 0.05 returns on the same cache and
\* snapshot, and leaves the same cache.
C5_IntervalFloor ==
    (Called /\ interval_us <= MinIntervalUs) =>
        LET floored == ComputeCpuDeltas(call_cache, curr_snapshot, MinIntervalUs, cpu_count)
        IN  results = floored.results /\ proc_cpu_cache = floored.cache

C5_Witness ==
    /\ Called
    /\ interval_us = 1000
    /\ \E i \in 1..Len(results) :
          results[i].cpu_percent # Zero /\ results[i].cpu_percent # Hundred

-----------------------------------------------------------------------------
(* Claims about party mode and the main loop, checked under Spec.          *)

CommandStep == cmd_count' = cmd_count + 1

Rejections == {"party_unavailable", "party_ctor_failed", "party_start_failed"}

\* C6: the party toggle-off that follows a successful toggle-on made at
\* refresh rate R leaves current_refresh_rate = R and
\* party_prev_refresh_rate cleared, whatever commands ran in between.
C6_PartyRoundTrip ==
    [][(CommandStep /\ last_cmd' = "party_off") =>
          /\ current_refresh_rate' = rate_at_entry
          /\ party_prev_refresh_rate' = None]_vars

C6_Witness ==
    /\ last_cmd = "party_off"
    /\ speed_in_party
    /\ ~party_mode
    /\ current_refresh_rate = rate_at_entry
    /\ party_prev_refresh_rate = None

\* C7: a party toggle-on that cannot start the extractor is rejected:
\* party_mode stays false, current_refresh_rate and
\* party_prev_refresh_rate are unchanged, party_visualizer is unset and the
\* command returns to handle_input with the application still running.
C7_RejectedToggleChangesNothing ==
    [][(CommandStep /\ last_cmd' \in Rejections) =>
          /\ ~party_mode /\ ~party_mode'
          /\ current_refresh_rate' = current_refresh_rate
          /\ party_prev_refresh_rate' = party_prev_refresh_rate
          /\ party_visualizer' = NoVisualizer
          /\ pc' = pc
          /\ app_running' = app_running]_vars

C7_Witness ==
    /\ last_cmd = "party_start_failed"
    /\ audio_available
    /\ rate_at_entry # None
    /\ ~party_mode
    /\ party_visualizer = NoVisualizer

\* C8: an iteration of the main loop that begins with party_mode true calls
\* render and handle_input and nothing else, and leaves last_update and
\* last_process_update as they were.
C8_PartyIterationDoesNotSample ==
    /\ [][(pc = "top" /\ pc' = "input" /\ party_mode) =>
             /\ iter_mode' = "party"
             /\ calls' = <<"render", "handle_input">>
             /\ last_update' = last_update
             /\ last_process_update' = last_process_update]_vars
    /\ [][(pc = "input" /\ iter_mode = "party") =>
             /\ calls' = calls
             /\ last_update' = last_update
             /\ last_process_update' = last_process_update]_vars

\* a party iteration has ended in which both updates were due by the timers
C8_Witness ==
    /\ pc = "top"
    /\ iter_mode = "party"
    /\ calls = <<"render", "handle_input">>
    /\ now - last_update >= HalfSecond
    /\ now - last_process_update >= HalfSecond

\* the number of times a call occurs in a sequence of calls
Count(seq, call) == Cardinality({k \in DOMAIN seq : seq[k] = call})

Has(seq, call) == \E k \in DOMAIN seq : seq[k] = call

\* a step that begins an iteration outside party mode
SamplingTick == pc = "top" /\ pc' = "input" /\ ~party_mode

\* C23: outside party mode the mode of a tick is a function of the refresh
\* interval read at the start of that tick alone: HighSpeed iff the interval
\* is below 0.5 s, Normal iff it is 0.5 s or more, and the sampling calls
\* are those of that mode, whatever the earlier ticks were.
C23_ModeIsFunctionOfInterval ==
    [][SamplingTick =>
          LET interval == REFRESH_RATES[current_refresh_rate]
          IN  /\ refresh_interval' = interval
              /\ iter_mode' = IF interval < HalfSecond THEN "high" ELSE "normal"
              /\ interval < HalfSecond => ~Has(calls', "update_system_stats")
              /\ interval >= HalfSecond =>
                    /\ ~Has(calls', "update_system_stats_fast")
                    /\ ~Has(calls', "update_system_stats_slow")]_vars

\* a Normal tick at exactly 0.5 s, reached from the initial rate by a speed
\* command, with the full stats sampled
C23_Witness ==
    /\ pc = "input"
    /\ iterations >= 2
    /\ refresh_interval = HalfSecond
    /\ iter_mode = "normal"
    /\ Has(calls, "update_system_stats")

\* C24: in a Normal tick in which the refresh interval has elapsed, the full
\* system stats are refreshed and then the process list, in that tick; in a
\* Normal tick in which it has not, neither is refreshed; after any history
\* of rate changes.
C24_NormalRefreshesTogether ==
    [][(SamplingTick /\ iter_mode' = "normal") =>
          IF clock - last_update >= REFRESH_RATES[current_refresh_rate]
          THEN calls' = <<"update_system_stats", "get_processes", "render", "handle_input">>
          ELSE calls' = <<"render", "handle_input">>]_vars

\* C25: every HighSpeed iteration calls update_system_stats_fast exactly
\* once.
C25_FastEveryHighSpeedTick ==
    [][(SamplingTick /\ iter_mode' = "high") =>
          Count(calls', "update_system_stats_fast") = 1]_vars

\* C26: in a HighSpeed tick update_system_stats_slow and get_processes run
\* together or not at all, the slow stats first, and only when 0.5 s or more
\* have passed since the previous slow update; the slow timer moves only in
\* a tick with a slow update and the fast timer only in a tick with a fast
\* update; update_system_stats is not called.
C26_SlowCadenceInHighSpeed ==
    [][(SamplingTick /\ iter_mode' = "high") =>
          LET slow == Has(calls', "update_system_stats_slow")
              fast == Has(calls', "update_system_stats_fast")
          IN  /\ slow <=> Has(calls', "get_processes")
              /\ slow => /\ clock - last_process_update >= HalfSecond
                         /\ \E k \in DOMAIN calls' :
                               /\ calls'[k] = "update_system_stats_slow"
                               /\ calls'[k + 1] = "get_processes"
                         /\ Count(calls', "update_system_stats_slow") = 1
                         /\ Count(calls', "get_processes") = 1
              /\ last_process_update' = IF slow THEN clock ELSE last_process_update
              /\ last_update' = IF fast THEN clock ELSE last_update
              /\ ~Has(calls', "update_system_stats")]_vars

\* a HighSpeed tick with a fast update and no slow update: the fast timer
\* has moved and the slow timer has not
C26_Witness ==
    /\ pc = "input"
    /\ iter_mode = "high"
    /\ calls = <<"update_system_stats_fast", "render", "handle_input">>
    /\ last_update = now
    /\ last_process_update < now
    /\ now - last_process_update < HalfSecond

SamplingCalls ==
    {"update_system_stats", "update_system_stats_fast", "update_system_stats_slow",
     "get_processes"}

\* C27: the calls of every iteration, in every mode and whether or not any
\* sampling was due, hold render exactly once, after every sampling call and
\* before every handle_input.
C27_RenderOncePerIteration ==
    iterations >= 1 =>
        /\ Count(calls, "render") = 1
        /\ \A k \in DOMAIN calls :
              \A r \in DOMAIN calls :
                 calls[r] = "render" =>
                    /\ k < r => calls[k] \in SamplingCalls
                    /\ k > r => calls[k] = "handle_input"

\* a HighSpeed iteration in which nothing was due has ended
C27_Witness ==
    /\ pc = "top"
    /\ iterations >= 2
    /\ iter_mode = "high"
    /\ calls = <<"render", "handle_input">>

\* the statement of C28 as made: every visualizer whose start() succeeded
\* is stopped exactly once before the program ends.
C28_StoppedExactlyOnce ==
    /\ \A k \in DOMAIN vis_stops : vis_stops[k] <= 1
    /\ pc = "done" => \A k \in DOMAIN vis_stops : vis_stops[k] = 1

\* C28: every visualizer whose start() succeeded has been stopped when the
\* program ends, by the toggle-off, which clears party_visualizer, or by
\* main's cleanup; stop() is called on it once, or twice when a
\* KeyboardInterrupt ends the toggle-off between its stop() and the clearing
\* of party_visualizer.
C28_StoppedBeforeExit ==
    /\ \A k \in DOMAIN vis_stops :
          /\ k < Len(vis_stops) => vis_stops[k] = 1
          /\ vis_stops[k] <= IF last_cmd = "party_off_interrupted" THEN 2 ELSE 1
          /\ pc = "done" => vis_stops[k] >= 1
    /\ last_cmd = "party_off" => party_visualizer = NoVisualizer
    /\ (party_mode /\ last_cmd # "party_off_interrupted" /\ pc # "done") =>
          /\ vis_stops # <<>>
          /\ vis_stops[Len(vis_stops)] = 0

\* two visualizers were started: the first stopped by the toggle-off, the
\* second by the cleanup with party mode still on
C28_Witness ==
    /\ pc = "done"
    /\ party_mode
    /\ vis_stops = <<1, 1>>

-----------------------------------------------------------------------------
(* Claims about the visualizer's lock (SpecAudio)                           *)

CaptureSection == {"ram", "swap", "disk", "cpu", "unlock"}

MainSection ==
    {"gm_ram", "gm_swap", "gm_disk", "gm_cpu", "gm_unlock",
     "stop_ram", "stop_swap", "stop_disk", "stop_cpu", "stop_unlock"}

\* a step that writes a magnitude: each write adds one to its count
WriteStep == writes' # writes

\* C9: after construction every write to ram, swap, disk and the cpu bands,
\* by the capture callback or by stop(), is made by the thread that holds
\* the lock, and the capture thread and the main thread are never both
\* inside a lock-guarded section.
C9_WritesUnderLock ==
    /\ [](~(cb_pc \in CaptureSection /\ m_pc \in MainSection))
    /\ [][(WriteStep /\ cb_pc' # cb_pc) => lock = "capture"]_vars
    /\ [][(WriteStep /\ m_pc' # m_pc) => lock = "main"]_vars

\* stop() is resetting the magnitudes under the lock, after a callback has
\* written them, while the next callback waits for the lock
C9_Witness ==
    /\ m_pc = "stop_cpu"
    /\ lock = "main"
    /\ cb_pc = "lock"
    /\ writes.ram >= 2

\* C10: the dict get_magnitudes() returns holds ram, swap, disk and cpu
\* values that all come after the same number of updates, and its cpu list
\* is another list object than the visualizer's, still holding the items
\* copied, whatever the capture thread has written since.
C10_SnapshotIsConsistentCopy ==
    ret.done =>
        /\ ret.v_swap = ret.v_ram
        /\ ret.v_disk = ret.v_ram
        /\ \A i \in 1..NumCores : ret.v_cpu[i] = ret.v_ram
        /\ ret.cpu # cpu_magnitudes
        /\ heap[ret.cpu] = ret.cpu_items

\* a snapshot was returned after one update, and the callback has since
\* written a second buffer into the visualizer's own list
C10_Witness ==
    /\ ret.done
    /\ ret.v_ram >= 1
    /\ cb_pc = "unlock"
    /\ writes.ram > ret.v_ram
    /\ heap[cpu_magnitudes] # heap[ret.cpu]

InRange(m) == m[2] > 0 /\ 0 <= m[1] /\ m[1] <= 100 * m[2]

\* C11: in every reachable state, whatever the interleaving of callbacks,
\* stop() and get_magnitudes(), the ram, swap and disk magnitudes and every
\* cpu band magnitude are in [0,100].
C11_MagnitudesInRange ==
    /\ InRange(ram_magnitude)
    /\ InRange(swap_magnitude)
    /\ InRange(disk_magnitude)
    /\ \A i \in 1..Len(heap[cpu_magnitudes]) : InRange(heap[cpu_magnitudes][i])

\* two buffers have been smoothed in: the bass band stands at 91, another
\* band strictly between 0 and 100 at a value that is not a whole number
C11_Witness ==
    /\ callbacks = 2
    /\ cb_pc = "idle"
    /\ ram_magnitude = <<91, 1>>
    /\ \E i \in 1..NumCores : heap[cpu_magnitudes][i][2] > 1

\* no stream held, _running false and every magnitude zero, in the state a
\* step leads to
StoppedAfter ==
    /\ stream' = None
    /\ ~running'
    /\ ram_magnitude' = <<0, 1>>
    /\ swap_magnitude' = <<0, 1>>
    /\ disk_magnitude' = <<0, 1>>
    /\ heap'[cpu_magnitudes'] = ZeroList

\* C12: stop() is idempotent: a first call, a second call in a row and a
\* call on a visualizer never started all return (an exception of the
\* stream's stop or close is swallowed) in the same state: no stream held,
\* _running false and every magnitude zero.
C12_StopIdempotent ==
    [][(m_pc = "stop_unlock" /\ m_pc' = "idle") => StoppedAfter]_vars

\* a second stop() in a row has returned, on a visualizer that had been
\* started and had taken a buffer, the first stop() having found the
\* magnitudes not zero
C12_Witness ==
    /\ stops = 2
    /\ m_pc = "idle"
    /\ callbacks >= 1
    /\ writes.ram >= 3
    /\ stream = None
    /\ ~running

\* C21: a fault raised inside the capture callback never leaves
\* _audio_callback: the callback is never left by an exception.
C21_FaultStaysInCallback == cb_pc # "raised"

-----------------------------------------------------------------------------
(* Claims about _smooth in double arithmetic (SpecSmooth)                   *)

Smoothed == sm_pc = "smooth" /\ sm_steps >= 1

\* ten times the convex combination 0.3 * old + 0.7 * new, exactly
TenTimesConvex(old_val, new_val) == DyAdd(DyScale(old_val, 3), DyScale(new_val, 7))

DyMax(x, y) == IF DyLess(x, y) THEN y ELSE x

DyMin(x, y) == IF DyLess(x, y) THEN x ELSE y

\* x * 2^-51: three roundings of relative size 2^-53 fit within it
RoundingError(x) == [m |-> x.m, e |-> x.e - 51]

\* the statement of C22 read exactly: _smooth(x, x) = x, the result lies
\* between old and new value, and the distance to the target is 0.3 times
\* the distance before the step.
C22_SmoothConvex ==
    Smoothed =>
        /\ DyEq(sm_prev, sm_target) => DyEq(sm_val, sm_prev)
        /\ DyLeq(DyMin(sm_prev, sm_target), sm_val)
        /\ DyLeq(sm_val, DyMax(sm_prev, sm_target))
        /\ DyEq(DyScale(DyDist(sm_val, sm_target), 10),
                DyScale(DyDist(sm_prev, sm_target), 3))

\* C22: _smooth is the convex combination with factor 0.3 up to the rounding
\* of double arithmetic: the result differs from 0.3 * old + 0.7 * new by at
\* most 2^-51 times the larger of old and new, so _smooth(x, x) = x, the
\* result lying between old and new, and the distance to a constant target
\* shrinking by the factor 0.3 each step all hold within that error.
C22_SmoothConvexRounded ==
    Smoothed =>
        DyLeq(DyDist(DyScale(sm_val, 10), TenTimesConvex(sm_prev, sm_target)),
              DyScale(RoundingError(DyMax(sm_prev, sm_target)), 10))

\* 0.1 smoothed toward 0.1 has left 0.1
C22_Witness ==
    /\ Smoothed
    /\ sm_target = Double(<<9, 9, 9, 9, 9, 9, 9, 9, 9, 9, 9, 9, 10>>, -4)
    /\ sm_prev = sm_target
    /\ sm_val # sm_prev

-----------------------------------------------------------------------------
(* Claims about start() and device selection (SpecStart)                    *)

Built == st_pc \in {"attempt", "done"}

\* the positions of configs_to_try that name the chosen device
OnDevice == {k \in DOMAIN configs_to_try : configs_to_try[k].device # NoDevice}

\* where a rate stands in sample_rates_to_try
RatePos(rate) == CHOOSE k \in DOMAIN sample_rates_to_try : sample_rates_to_try[k] = rate

DefaultRate == devices[device_id[1] + 1].default_samplerate

\* the order of the list: no rate twice, the device's default rate first
\* when it was read, rates in the order of the rate list, and within a rate
\* stereo before mono
ListOrder ==
    /\ \A i, j \in DOMAIN sample_rates_to_try :
          sample_rates_to_try[i] = sample_rates_to_try[j] => i = j
    /\ device_id # NoDevice =>
          sample_rates_to_try[1] = DefaultRate \/ sample_rates_to_try = CommonRates
    /\ \A i, j \in OnDevice :
          i < j =>
             /\ RatePos(configs_to_try[i].samplerate) <= RatePos(configs_to_try[j].samplerate)
             /\ configs_to_try[i].samplerate = configs_to_try[j].samplerate =>
                   configs_to_try[i].channels >= configs_to_try[j].channels

\* the k-th attempt is of the k-th configuration
InListOrder == \A k \in DOMAIN attempts : attempts[k].at = k /\ attempts[k].cfg = configs_to_try[k]

\* C13: start() attempts its configurations strictly in list order (the
\* device's default rate first, no rate twice, stereo before mono within a
\* rate), stops at the first configuration whose stream opens and starts,
\* attempts none after it, returns True and records that configuration's
\* rate as sample_rate.
C13_FirstSuccessWins ==
    /\ [](Built => ListOrder)
    /\ []InListOrder
    /\ [](\A k \in DOMAIN attempts :
             attempts[k].ok =>
                /\ k = Len(attempts)
                /\ start_ret = "True"
                /\ running
                /\ sample_rate = attempts[k].cfg.samplerate)
    /\ [](start_ret = "True" => attempts # <<>> /\ attempts[Len(attempts)].ok)
    /\ [][start_ret = "True" => attempts' = attempts]_vars

\* the mono configuration of the third rate won after eight failures, on a
\* device whose default rate is one of the common rates but not the first
C13_Witness ==
    /\ start_ret = "True"
    /\ device_id # NoDevice
    /\ sample_rates_to_try = <<44100, 48000, 96000>>
    /\ Len(attempts) = 9
    /\ sample_rate = 96000
    /\ attempts[9].cfg.channels = 1

\* C14: when every configuration attempted fails to open or to start,
\* start() returns False, after each configuration was tried once and no
\* more, and leaves _running false.
C14_AllFailReturnsFalse ==
    (st_pc = "done" /\ \A k \in DOMAIN attempts : ~attempts[k].ok) =>
        /\ start_ret = "False"
        /\ ~running
        /\ Len(attempts) = Len(configs_to_try)
        /\ InListOrder

\* sixteen configurations failed, one of them on the start of its stream
C14_Witness ==
    /\ st_pc = "done"
    /\ start_ret = "False"
    /\ Len(attempts) = 16
    /\ stream = "unstarted"
    /\ ~running

\* C15: every configuration start() attempts names the device chosen by
\* device selection, never the default input device (device = None).
C15_NeverDefaultDevice ==
    \A k \in DOMAIN attempts :
        attempts[k].cfg.device # NoDevice /\ attempts[k].cfg.device = device_id

Selected == st_pc # "call"

\* the endpoint device selection returned
Chosen == devices[device_id[1] + 1]

\* an ordinary input endpoint: neither a virtual-mixer bus, nor a virtual
\* cable, nor a loopback or stereo-mix source
Ordinary(dev) == dev.name = "microphone (realtek audio)" /\ dev.max_input_channels > 0

\* C16: _find_loopback_device never returns an ordinary input endpoint;
\* when only such endpoints exist it returns no device.
C16_NeverOrdinaryInput ==
    (Selected /\ device_id # NoDevice) => ~Ordinary(Chosen)

\* C17: only endpoints whose host API is WASAPI are candidates, and only
\* such an endpoint is returned, whatever its name.
C17_OnlyWasapi ==
    (Selected /\ device_id # NoDevice) => Chosen.hostapi = "windows wasapi"

\* a WASAPI Voicemeeter B1 output bus with input channels
IsB1(dev) ==
    /\ dev.name = "voicemeeter out b1 (vb-audio voicemeeter vaio)"
    /\ dev.hostapi = "windows wasapi"
    /\ dev.max_input_channels > 0

\* C18: device selection is priority-ordered: the device returned has the
\* lowest score of the candidates and is the first of those with that
\* score, and whenever a WASAPI B1 output bus is in the list the device
\* returned is such a bus, wherever it stands in the list.
C18_PriorityOrdered ==
    Selected =>
        /\ device_id # NoDevice =>
              /\ device_id[1] + 1 \in Candidates(devices)
              /\ \A j \in Candidates(devices) :
                    /\ Score(Chosen)[1] <= Score(devices[j])[1]
                    /\ Score(devices[j]) = Score(Chosen) => device_id[1] + 1 <= j
        /\ (\E j \in DOMAIN devices : IsB1(devices[j])) =>
              device_id # NoDevice /\ IsB1(Chosen)

\* the B1 bus stands after a stereo-mix source and is returned
C18_Witness ==
    /\ Selected
    /\ Len(devices) = 2
    /\ devices[1].name = "stereo mix (realtek audio)"
    /\ devices[1].hostapi = "windows wasapi"
    /\ IsB1(devices[2])
    /\ device_id = <<1>>

-----------------------------------------------------------------------------
(* Claims about the kernel snapshot and get_processes (SpecSnapshot)        *)

RECURSIVE Doubled(_, _)
Doubled(size, k) == IF k = 0 THEN size ELSE 2 * Doubled(size, k - 1)

\* C19: when the kernel query reports buffer-too-small (0xC0000004)
\* get_native_process_snapshot does not raise: it doubles buf_size and
\* retries, so that after k such reports buf_size is 1,000,000 * 2^k.
C19_TooSmallDoublesAndRetries ==
    /\ kernel_status = <<49152, 4>> => gp_pc = "query"
    /\ buf_size = Doubled(InitialBufSize, too_small)

\* C20: when the kernel query fails for another reason than
\* buffer-too-small, get_native_process_snapshot raises and returns no
\* list; get_processes gives up that cycle only: state.processes and
\* proc_cpu_cache keep their contents, get_processes returns to the main
\* loop with app_running true, and the next slow tick queries again.
C20_FailureSkipsOneCycle ==
    /\ [][(gp_pc = "query" /\ kernel_status' \notin {<<0, 0>>, <<49152, 4>>}) =>
             /\ gp_pc' = "raised"
             /\ curr_snapshot' = curr_snapshot]_vars
    /\ [][gp_pc = "raised" =>
             /\ gp_pc' = "idle"
             /\ processes' = processes
             /\ proc_cpu_cache' = proc_cpu_cache
             /\ app_running /\ app_running']_vars
    /\ []((gp_pc = "idle" /\ gp_failed /\ ticks < MaxTicks) => ENABLED GetProcessesCall)

\* after a cycle that listed a process, a cycle was given up on access
\* denied, the list was kept, and the next tick is querying again
C20_Witness ==
    /\ gp_pc = "query"
    /\ ticks = 3
    /\ gp_failed
    /\ kernel_status = <<49152, 34>>
    /\ processes # <<>>
    /\ DOMAIN proc_cpu_cache # {}

-----------------------------------------------------------------------------
(* Claims about the input polling of the main loop, checked under SpecKeys. *)

\* the step that ends an iteration of the main loop
IterationEnds == pc = "input" /\ pc' = "top"

\* every iteration calls handle_input at least once, exactly once in
\* HighSpeed and Party; in Normal the poll window set at the first call is
\* at most min(0.1, interval/2) seconds and every call starts inside it
PollsEveryIteration ==
    /\ IterationEnds =>
          /\ Count(calls, "handle_input") >= 1
          /\ iter_mode \in {"high", "party"} => Count(calls, "handle_input") = 1
    /\ (pc = "top" /\ pc' = "input" /\ iter_mode' = "normal") =>
          /\ clock' < poll_end'
          /\ poll_end' - clock' <= Min(PollWindow, refresh_interval' \div 2)
          /\ poll_end' - clock' <= PollWindow
    /\ (pc = "input" /\ Len(calls') > Len(calls)) =>
          /\ iter_mode = "normal"
          /\ clock' < poll_end

\* the statement of C29 as made: every iteration of the main loop calls
\* handle_input at least once (exactly once in HighSpeed and Party, one or
\* more times within a poll window of at most min(0.1, interval/2) seconds
\* in Normal), so a key pressed at any time is handled no later than the
\* end of the next iteration.
C29_HandledByNextIteration ==
    /\ [][PollsEveryIteration]_vars
    /\ [](\A k \in DOMAIN kbd : kbd[k].age <= 1)

\* C29, amended: every iteration of the main loop calls handle_input as
\* stated, and a key pressed at any time is handled no later than the end
\* of the next iteration, or one iteration later for every answer to a
\* pending confirmation that was read ahead of it; a handle_input call
\* leaves keys in the buffer only when it has just read such an answer.
C29_WaitsOnlyForAnswers ==
    /\ [][PollsEveryIteration]_vars
    /\ [](\A k \in DOMAIN kbd : kbd[k].age <= 1 + kbd[k].answers)
    /\ [][(hi_pc = "reading" /\ hi_pc' = "idle" /\ kbd' # <<>>) =>
             /\ pending_confirmation /\ ~pending_confirmation'
             /\ Head(kbd).ch \in AnswerKeys]_vars

\* two iterations have ended since a key was pressed, and it is still in
\* the buffer because the one handle_input call of a HighSpeed iteration
\* returned after the answer ahead of it
C29_Witness ==
    /\ pc = "top"
    /\ iter_mode = "high"
    /\ kbd # <<>>
    /\ Head(kbd).age = 2
    /\ Head(kbd).answers = 1
    /\ ~pending_confirmation

-----------------------------------------------------------------------------
(* Claims about the buffer walk, checked under SpecWalk.                    *)

\* the records of the first n entries of the chain the kernel wrote
ChainRecords(n) == [k \in 1 .. n |-> Record(wk_chain[k])]

\* C30: get_native_process_snapshot walks the buffer by the declared
\* offsets: from offset 0 it emits exactly one record per chain entry, in
\* chain order, advancing by each entry's NextEntryOffset, and stops after
\* the entry whose NextEntryOffset is 0; for a well-formed chain of n
\* entries the result has exactly n records and the walk terminates.
C30_WalkFollowsChain ==
    /\ [](wk_pc # "query" =>
             /\ Len(wk_results) <= Len(wk_chain)
             /\ wk_results = ChainRecords(Len(wk_results))
             /\ wk_pc = "walk" => wk_buf[wk_offset] = wk_chain[Len(wk_results) + 1]
             /\ wk_pc = "done" <=>
                   /\ wk_results # <<>>
                   /\ wk_chain[Len(wk_results)].NextEntryOffset = 0)
    /\ [](wk_pc = "done" => Len(wk_results) = Len(wk_chain))
    /\ [][wk_pc = "walk" => Len(wk_results') = Len(wk_results) + 1]_vars
    /\ (wk_pc = "walk" ~> wk_pc = "done")

\* a chain of three entries of different sizes, the idle process first,
\* has been walked to its end
C30_Witness ==
    /\ wk_pc = "done"
    /\ Len(wk_chain) = 3
    /\ wk_chain[1].NextEntryOffset = 2
    /\ wk_chain[2].NextEntryOffset = 1
    /\ wk_offset = 3
    /\ wk_results[1] = [pid |-> 0, name |-> "System"]
    /\ wk_results[3].pid = 4

-----------------------------------------------------------------------------
(* More claims about compute_cpu_deltas, checked under SpecCpu.             *)

\* the raw records of a snapshot, by pid
RawByPid(snap) ==
    [p \in SeenPids(snap) |-> Raw(snap[CHOOSE i \in DOMAIN snap : snap[i].pid = p])]

-----------------------------------------------------------------------------
(* More claims about the kernel snapshot, checked under SpecSnapshot.       *)

\* C32: the retry loop of get_native_process_snapshot has no retry or size
\* cap and ends exactly when the kernel call returns a status other than
\* buffer-too-small: on buffer-too-small it doubles the buffer and queries
\* again, however often that happens, and on every other status it leaves
\* the loop.
C32_LoopEndsOnlyOnOtherStatus ==
    [][gp_pc = "query" =>
          IF kernel_status' = <<49152, 4>>
          THEN gp_pc' = "query" /\ buf_size' = 2 * buf_size
          ELSE gp_pc' # "query" /\ buf_size' = buf_size]_vars

-----------------------------------------------------------------------------
(* More claims about the visualizer's threads, checked under SpecAudio.     *)

\* the main thread is not inside stop(), and the visualizer is as stop()
\* leaves it (or as it was built): not running, no stream held
Stopped ==
    /\ m_pc \notin {"stop_stream", "stop_lock", "stop_ram", "stop_swap", "stop_disk",
                    "stop_cpu", "stop_unlock"}
    /\ ~running
    /\ stream = None

\* C33: once stop() has returned, and until start() is called again, no
\* capture callback writes the magnitudes and they are all zero, so that
\* get_magnitudes() returns zeros; under every interleaving with the
\* capture thread, and also when stopping or closing the stream raised
\* inside stop().
C33_QuietAfterStop ==
    /\ [](Stopped =>
             /\ cb_pc \notin CaptureSection
             /\ ram_magnitude = <<0, 1>>
             /\ swap_magnitude = <<0, 1>>
             /\ disk_magnitude = <<0, 1>>
             /\ heap[cpu_magnitudes] = ZeroList)
    /\ [][(Stopped /\ Stopped') => ~(WriteStep /\ cb_pc \in CaptureSection)]_vars

-----------------------------------------------------------------------------
(* Claims about the end of the main loop, checked under SpecQuit.           *)

\* C34: once a quit command or Ctrl+C has set app_running to false it stays
\* false, no further iteration starts and the calls made after it hold no
\* sampling and no render; in Normal mode the poll loop is left without
\* another sleep; and main reaches the end of its cleanup.
C34_QuitEndsLoop ==
    /\ [][~app_running =>
             /\ ~app_running'
             /\ iterations' = iterations
             /\ Len(calls') >= Len(calls)
             /\ \A k \in DOMAIN calls' :
                   IF k \in DOMAIN calls THEN calls'[k] = calls[k]
                   ELSE calls'[k] = "handle_input"]_vars
    /\ [][(~app_running /\ pc = "input" /\ iter_mode = "normal" /\ pc' # "input") =>
             /\ clock' = clock
             /\ calls' = calls
             /\ pc' \in {"top", "done"}]_vars
    /\ [](pc = "done" => party_visualizer = NoVisualizer \/ ~party_visualizer[1].running)
    /\ (~app_running ~> pc = "done")

\* quit was typed in a Normal iteration after the first one, with time
\* left in the poll window, and main has ended through the while test
C34_Witness ==
    /\ pc = "done"
    /\ ~app_running
    /\ last_cmd = "quit"
    /\ iter_mode = "normal"
    /\ iterations >= 2
    /\ clock + PollSleep < poll_end

-----------------------------------------------------------------------------
(* More claims about party mode, checked under Spec.                        *)

\* C35: while the main loop runs (at its head and while it polls for
\* input) party_mode is true exactly if party_visualizer is set, and then
\* the visualizer's capture runs, and exactly if party_prev_refresh_rate is
\* set; toggles, failed starts and speed commands never make them disagree.
C35_PartyFlagsAgree ==
    pc \in {"top", "input"} =>
        /\ party_mode <=> party_visualizer # NoVisualizer
        /\ party_mode <=> party_prev_refresh_rate # None
        /\ party_visualizer # NoVisualizer =>
              party_visualizer[1].running /\ party_visualizer[1].stream = "active"

\* party mode is on at the loop head after a speed command given in party
\* mode, with a party toggle before this run of party mode
C35_Witness ==
    /\ pc = "top"
    /\ party_mode
    /\ last_cmd = "speed"
    /\ current_refresh_rate # "party"
    /\ cmd_count = MaxCmds
    /\ Len(vis_stops) = 1

-----------------------------------------------------------------------------
(* Claims about the interval of get_processes, checked under SpecInterval.  *)

\* C36: whenever compute_cpu_deltas is called with a non-empty cache, the
\* interval passed equals the time elapsed since the cache contents were
\* recorded, also after cycles whose snapshot failed and after long pauses.
C36_IntervalIsCacheAge ==
    (last_call # <<>> /\ last_call[1].cache_age # <<>>) =>
        last_call[1].interval = last_call[1].cache_age[1]

-----------------------------------------------------------------------------
(* More claims about start(), checked under SpecStart.                      *)

\* C37: every stream start() created is the running stream the visualizer
\* holds or has been closed: between the turns of the loop, after start()
\* returned and after the caller dropped the visualizer, _stream holds no
\* stream that is not running and no created stream was dropped unclosed.
C37_NoStreamLeftOpen ==
    /\ dropped = 0
    /\ stream # None => (stream = "active" /\ running)

-----------------------------------------------------------------------------
(* Claims about start() and the capture thread, checked under SpecRate.     *)

\* C38: every callback converts frequencies to bins with the sample rate of
\* the stream that delivered its buffer; no callback runs while sample_rate
\* holds a value other than the opened stream's rate.
C38_CallbackUsesStreamRate ==
    cb_rate # <<>> => cb_rate[1].used = cb_rate[1].delivered

-----------------------------------------------------------------------------
(* Claims about kill, suspend and resume, checked under SpecKill.           *)

\* the targets of a loop that a kill must skip
ProtectedIn(targets) ==
    {k \in DOMAIN targets : targets[k].fate # "name_raises"
                            /\ Lower(targets[k].name) \in protected}

\* the targets of a loop whose call is made and succeeds
ActedOn(action, targets) ==
    {k \in DOMAIN targets : /\ targets[k].fate = "ok"
                            /\ ~(action = "kill" /\ k \in ProtectedIn(targets))}

\* C39: no kill terminates a process whose lower-cased name is in the
\* protected list; on the immediate and on the confirmed path such a target
\* counts as an error, every target is counted, and each other target whose
\* call works is acted on.
C39_ProtectedNeverKilled ==
    /\ \A k \in DOMAIN acts :
          acts[k].op = "kill" =>
              acts[k].name \notin {"Svchost.exe", "svchost.exe", "lsass.exe", "LSASS.EXE"}
    /\ tally # <<>> =>
          LET t == tally[1]
          IN  /\ t.success + t.errors = Len(t.targets)
              /\ t.action = "kill" => t.errors >= Cardinality(ProtectedIn(t.targets))
              /\ t.success = Cardinality(ActedOn(t.action, t.targets))
              /\ Len(acts) >= t.success
              /\ \A k \in 1 .. t.success : acts[Len(acts) - t.success + k].op = t.action

\* a confirmed kill of a protected process whose name has a capital letter
\* and of an ordinary one: one error, one success, notepad.exe terminated
C39_Witness ==
    /\ tally # <<>>
    /\ tally[1].path = "confirmed"
    /\ tally[1].action = "kill"
    /\ tally[1].targets = <<[name |-> "Svchost.exe", fate |-> "ok"],
                            [name |-> "notepad.exe", fate |-> "ok"]>>
    /\ tally[1].success = 1
    /\ tally[1].errors = 1
    /\ acts = <<[op |-> "kill", name |-> "notepad.exe"]>>

\* a value of the queue is read while a confirmation is pending
ReadsWhilePending == pending_action # <<>> /\ kbq # <<>> /\ kbq' = Tail(kbq)

\* C40: a kill or suspend with a warn-listed target, and a kill, suspend or
\* resume by name with more than one target, only records the pending
\* confirmation; while it is pending, the n key and Esc clear it without
\* acting, the y key runs the recorded action once and clears it, and every
\* other key leaves the confirmation, the input buffer and the processes
\* as they are.
C40_OnlyYesActs ==
    /\ [][(pending_action = <<>> /\ pending_action' # <<>>) =>
             /\ acts' = acts
             /\ tally' = tally
             /\ LET p == pending_action'[1]
                IN  \/ /\ p.action \in {"kill", "suspend"}
                       /\ \E k \in DOMAIN p.targets :
                             p.targets[k].name \in {"explorer.exe", "spoolsv.exe", "audiodg.exe"}
                    \/ Len(p.targets) > 1]_vars
    /\ [][(ReadsWhilePending /\ kbq[1].key \in {"n", "Esc"}) =>
             pending_action' = <<>> /\ acts' = acts /\ tally' = tally]_vars
    /\ [][(ReadsWhilePending /\ kbq[1].key = "y") =>
             /\ pending_action' = <<>>
             /\ tally' = <<[path |-> "confirmed", action |-> pending_action[1].action,
                           targets |-> pending_action[1].targets,
                           success |-> tally'[1].success, errors |-> tally'[1].errors]>>
             /\ Len(acts') = Len(acts) + tally'[1].success]_vars
    /\ [][(ReadsWhilePending /\ kbq[1].key \notin {"y", "n", "Esc"}) =>
             /\ pending_action' = pending_action
             /\ input_buffer' = input_buffer
             /\ acts' = acts
             /\ tally' = tally]_vars
    /\ [][acts' # acts =>
             \/ pending_action = <<>> /\ pending_action' = <<>>
             \/ ReadsWhilePending /\ kbq[1].key = "y"]_vars

====
